---- MODULE Spec2Model ----
(***************************************************************************)
(* LLMover: relocation of one catalog entry between the local models root  *)
(* and a removable (USB) root, with symlink substitution.                  *)
(*                                                                         *)
(* The model follows src/src/llm_mover/utils.py and models.py.  The file   *)
(* system is a map from a handful of paths to nodes; every library call    *)
(* that changes it is one step of the calling thread.  Sizes are counted   *)
(* in units of 512 MiB, so that 1 GiB is 2 units; the 100 MB free-space    *)
(* minimum and buffer are a fraction of a unit and round up to 1 in every  *)
(* integer comparison the code makes (free >= min, size + buffer > free).  *)
(*                                                                         *)
(* Environment: a call that reads or writes the removable root may raise   *)
(* OSError (the medium is the unreliable part); calls that touch only the  *)
(* local root do not.  A probe of the removable root may report any        *)
(* status.                                                                 *)
(***************************************************************************)
EXTENDS Integers, Sequences, FiniteSets, TLC

VARIABLES
    fs,                 \* path -> node: the two roots' content
    pc,                 \* position of the calling thread
    op,                 \* the public operation in progress
    model,              \* the catalog's ModelInfo record of the entry
    env,                \* what the removable root reports to the pre-flight of the call
    usb_verification,   \* ModelManager._usb_verification
    symlink_strategy,   \* configuration: "auto", "directory" or "file"
    size_threshold,     \* configuration: file_size_threshold_mb, in units
    sm,                 \* frame of safe_move_with_verification
    mon,                \* _monitored_move: the two events and the monitor thread
    fq,                 \* frame of the per-file loops
    err,                \* the exception in flight ("" when none)
    result,             \* outcome of the last operation that returned
    pre,                \* the file system when the operation in progress was called
    hist,               \* bookkeeping of the operation: trigger and rollback
    budget              \* operations called and I/O errors raised so far

vars == <<fs, pc, op, model, env, usb_verification, symlink_strategy, size_threshold, sm,
          mon, fq, err, result, pre, hist, budget>>

----------------------------------------------------------------------------
(* Bounds of the model *)

\* largest size of one file of the entry, in units
MaxFileSize == 2
\* number of operations called in one behaviour
MaxOps == 3
\* number of I/O errors the removable root raises in one behaviour
MaxFaults == 1
\* largest free space the removable root reports, in units
MaxFree == 8
\* largest number of files of a directory handed to the selector on its own
MaxSelectorFiles == 3

(* Program constants *)

\* 1024 * 1024 * 1024 bytes
GiB == 2
\* 1024 * 1024 * 100 bytes, rounded up to a whole unit
MIN_FREE_SPACE_BUFFER == 1
\* default of min_space_bytes, rounded up to a whole unit
MinSpaceDefault == 1
\* DEFAULT_FILE_SIZE_THRESHOLD_MB, rounded up to a whole unit
FileSizeThreshold == 1

----------------------------------------------------------------------------
(* The file system *)

\* E: the entry's local path (model.path); Eb: E + ".backup_<pid>";
\* D: the entry's path on the removable root (usb_dest); Db: D + ".backup_<pid>";
\* P: the publisher directory on the removable root;
\* T: the probe file ".llm_mover_test_<pid>" in the removable root.
Paths == {"E", "Eb", "D", "Db", "P", "T"}
UsbPaths == {"D", "Db", "P", "T"}
BackupPaths == {"Eb", "Db"}

OnUsb(p) == p \in UsbPaths

\* Files of an entry directory: "w.gguf" is a weight file at the top of the
\* directory, "sub/w.gguf" one in a subdirectory, "c.json" matches a default
\* keep-local pattern.  "old" is the one file of a stale object; "@" is the
\* place <dir>/<basename> where shutil.move puts a source when its destination
\* is an existing directory.
EntryNames == {"w.gguf", "sub/w.gguf", "c.json"}

\* Further file names: an MLX weight file, a safetensors file, and one whose
\* name carries a mixed-precision token ("mxfp").
SelectorNames == EntryNames \cup {"w.mlx", "w.safetensors", "w-mxfp4.safetensors"}
NameOrder == <<"w.gguf", "sub/w.gguf", "c.json", "w.mlx", "w.safetensors",
               "w-mxfp4.safetensors">>

\* Path.suffix.lower() of a file name.
Suffix(n) ==
    CASE n \in {"w.gguf", "sub/w.gguf"} -> ".gguf"
      [] n = "w.mlx" -> ".mlx"
      [] n \in {"w.safetensors", "w-mxfp4.safetensors"} -> ".safetensors"
      [] n = "c.json" -> ".json"
      [] OTHER -> ""

\* 'mxfp' or 'mx-' in file.name.lower()
HasMxIndicator(n) == n = "w-mxfp4.safetensors"

\* Names of catalog entries (ModelInfo.name, publisher/model_name), and which
\* of 'mlx', 'mx' and one of 'fp4', 'fp6', 'fp8' each contains in lower case.
PlainName == "pub/llama"
ModelNames == {PlainName, "mlx-community/llama", "pub/llama-mxfp4", "pub/llama-mx",
               "pub/llama-fp8"}
NameTokens(name) ==
    CASE name = "mlx-community/llama" -> {"mlx"}
      [] name = "pub/llama-mxfp4" -> {"mx", "fp"}
      [] name = "pub/llama-mx" -> {"mx"}
      [] name = "pub/llama-fp8" -> {"fp"}
      [] OTHER -> {}
BackupName(n) == n \o ".backup"

None == [kind |-> "none", size |-> 0, files |-> <<>>, to |-> <<>>]
File(s) == [kind |-> "file", size |-> s, files |-> <<>>, to |-> <<>>]
Dir(m) == [kind |-> "dir", size |-> 0, files |-> m, to |-> <<>>]
Link(t) == [kind |-> "link", size |-> 0, files |-> <<>>, to |-> t]

EmptyDir == Dir(<<>>)

\* The text of a link made by hand may be relative: it starts with "." and
\* names its target from the directory of the link, and it names nothing
\* from the working directory of the program.
IsRelative(t) == t # <<>> /\ t[1] = "."

\* The node a path of one or two components names, not following a final link.
Lookup(f, t) ==
    IF Len(t) = 0 THEN None
    ELSE IF IsRelative(t) THEN
         (IF Len(t) = 2 THEN f[t[2]] ELSE None)
    ELSE IF Len(t) = 1 THEN f[t[1]]
    ELSE LET d == IF f[t[1]].kind = "link" /\ Len(f[t[1]].to) = 1
                  THEN f[f[t[1]].to[1]] ELSE f[t[1]]
         IN IF d.kind = "dir" /\ t[2] \in DOMAIN d.files THEN d.files[t[2]] ELSE None

\* What a node is after following a link (links of the model point at real nodes).
Resolve(f, n) == IF n.kind = "link" THEN
                    LET r == Lookup(f, n.to) IN IF r.kind = "link" THEN None ELSE r
                 ELSE n

\* Path.exists(), is_file(), is_dir(): all follow links.  is_symlink() does not.
Exists(f, p) == Resolve(f, f[p]).kind # "none"
IsFile(f, p) == Resolve(f, f[p]).kind = "file"
IsDir(f, p) == Resolve(f, f[p]).kind = "dir"
IsSymlink(f, p) == f[p].kind = "link"

RECURSIVE SumSet(_, _)
SumSet(S, g) == IF S = {} THEN 0
                ELSE LET x == CHOOSE y \in S : TRUE IN g[x] + SumSet(S \ {x}, g)

\* rglob('*') with is_file(): the regular files below a directory, links to
\* files included (stat follows them); linked directories are not descended.
RECURSIVE FileCount(_, _)
FileCount(f, n) ==
    IF n.kind = "file" THEN 1
    ELSE IF n.kind = "link" THEN (IF Resolve(f, n).kind = "file" THEN 1 ELSE 0)
    ELSE IF n.kind = "dir" THEN
        SumSet(DOMAIN n.files, [x \in DOMAIN n.files |-> FileCount(f, n.files[x])])
    ELSE 0

RECURSIVE FileBytes(_, _)
FileBytes(f, n) ==
    IF n.kind = "file" THEN n.size
    ELSE IF n.kind = "link" THEN
        (IF Resolve(f, n).kind = "file" THEN Resolve(f, n).size ELSE 0)
    ELSE IF n.kind = "dir" THEN
        SumSet(DOMAIN n.files, [x \in DOMAIN n.files |-> FileBytes(f, n.files[x])])
    ELSE 0

\* Number and total size of the regular files at or below a path.
CountAt(f, p) == FileCount(f, Resolve(f, f[p]))
BytesAt(f, p) == FileBytes(f, Resolve(f, f[p]))

Put(f, p, n) == [f EXCEPT ![p] = n]
Remove(f, p) == [f EXCEPT ![p] = None]

Restrict(m, S) == [x \in S |-> m[x]]
Extend(m, x, v) == [y \in DOMAIN m \cup {x} |-> IF y = x THEN v ELSE m[y]]

\* What an interrupted copy of a node leaves at the destination.
Partial(n) ==
    IF n.kind = "file" THEN {File(0)}
    ELSE IF n.kind = "dir" THEN
        {Dir(Restrict(n.files, S)) : S \in (SUBSET DOMAIN n.files) \ {DOMAIN n.files}}
    ELSE {}

----------------------------------------------------------------------------
(* Library calls *)

\* A step's possible results: the file system it leaves and whether it raised.
\* Raised: the call raises whatever the medium does; Fault: an I/O error of
\* the removable root.
Done(f) == [fs |-> f, ok |-> TRUE, fault |-> FALSE]
Raised(f) == [fs |-> f, ok |-> FALSE, fault |-> FALSE]
Fault(f) == [fs |-> f, ok |-> FALSE, fault |-> TRUE]

\* The directory a path stands for when it is (or links to) an existing directory.
DirHome(f, d) == IF f[d].kind = "link" THEN f[d].to[1] ELSE d

\* shutil.move(s, d) when d is an existing directory: the source goes to
\* d/<basename of s>.  Local and removable root are different file systems,
\* so a move between them is a copy followed by the removal of the source.
MoveInto(f, s, d) ==
    LET h == DirHome(f, d)
        n == f[s]
        at(x) == [f EXCEPT ![h] = Dir(Extend(f[h].files, "@", x))]
    IN IF n.kind = "none" \/ h = s \/ "@" \in DOMAIN f[h].files THEN {Raised(f)}
       ELSE {Done(Remove(at(n), s))}
            \cup (IF OnUsb(s) \/ OnUsb(h)
                  THEN {Fault(at(x)) : x \in Partial(n)} \cup {Fault(at(n)), Fault(f)}
                  ELSE {})

\* shutil.move(s, d) when d is not an existing directory: os.rename within one
\* file system; across file systems a link is recreated, a directory goes
\* through copytree + rmtree, a file through copy2 + unlink.
MoveTo(f, s, d) ==
    LET n == f[s]
        moved == Put(Remove(f, s), d, n)
    IN IF n.kind = "none" THEN {Raised(f)}
       ELSE IF OnUsb(s) = OnUsb(d) THEN
            (IF n.kind = "dir" /\ f[d].kind # "none" THEN {Raised(f)}
             ELSE {Done(moved)} \cup (IF OnUsb(s) THEN {Fault(f)} ELSE {}))
       ELSE IF n.kind = "file" /\ f[d].kind \in {"none", "file"} THEN
            {Done(moved), Fault(Put(f, d, n)), Fault(f)}
               \cup {Fault(Put(f, d, x)) : x \in Partial(n)}
       ELSE IF f[d].kind # "none" THEN {Raised(f)}
       ELSE {Done(moved), Fault(Put(f, d, n)), Fault(f)}
               \cup {Fault(Put(f, d, x)) : x \in Partial(n)}

ShutilMove(f, s, d) == IF IsDir(f, d) THEN MoveInto(f, s, d) ELSE MoveTo(f, s, d)

\* shutil.copytree(s, d, dirs_exist_ok=True): links in the source are followed.
CopyLeaf(f, n) == IF n.kind = "link" THEN Resolve(f, n) ELSE n
CopyTree(f, s, d) ==
    LET r == Resolve(f, f[s])
        src == [x \in DOMAIN r.files |-> CopyLeaf(f, r.files[x])]
        old == IF f[d].kind = "dir" THEN f[d].files ELSE <<>>
        merged(S) == [x \in DOMAIN old \cup S |-> IF x \in S THEN src[x] ELSE old[x]]
    IN IF r.kind # "dir" \/ f[d].kind \in {"file", "link"} THEN {Raised(f)}
       ELSE {Done(Put(f, d, Dir(merged(DOMAIN src))))}
            \cup {Fault(Put(f, d, Dir(merged(S)))) :
                     S \in (SUBSET DOMAIN src) \ {DOMAIN src}}
            \cup {Fault(f)}

\* shutil.rmtree(p) / Path.unlink(): removal on the removable root may raise.
Delete(f, p) ==
    IF f[p].kind = "none" THEN {Raised(f)}
    ELSE {Done(Remove(f, p))} \cup (IF OnUsb(p) THEN {Fault(f)} ELSE {})

----------------------------------------------------------------------------
(* verify_usb_mounted *)

\* What a probe can observe of the removable root: whether the path exists,
\* whether it is a mount point, whether it takes a write at all, the free
\* space disk_usage reports, and how the write test of lines 72-91 ends:
\* "ok"; "oserror" (open, write, fsync or disk_usage raised); "mismatch" (the
\* data read back differs).  Nothing but its absence is observed of a missing
\* root, and the free space of a root that takes no write is never read.
\* Every caller rejects a root that is no mount point whatever the write
\* test found, so its write test either writes the file or does not.
\* With no free byte the write of the test data may or may not find room.
WriteOutcomes(writable, free) ==
    IF ~writable THEN {"oserror"}
    ELSE IF free = 0 THEN {"ok", "oserror", "mismatch"}
    ELSE {"ok", "mismatch"}

Envs == {e \in [exists : BOOLEAN, mounted : BOOLEAN, writable : BOOLEAN,
                free : {0, 1, MaxFree}, write : {"ok", "oserror", "mismatch"}] :
            /\ (~e.exists => ~e.mounted /\ ~e.writable)
            /\ (~e.writable => e.free = MaxFree)
            /\ (~e.mounted /\ e.writable => e.free = MaxFree /\ e.write = "ok")
            /\ e.write \in WriteOutcomes(e.writable, e.free)}

USBVerificationResult(m, w, s, t) ==
    [is_mounted |-> m, is_writable |-> w, has_space |-> s, mount_type |-> t]

NoVerification == USBVerificationResult(FALSE, FALSE, FALSE, "none")

\* A variant of line 88 that wants more free space than the minimum.
verify_usb_mounted_strict(e, min_space_bytes) ==
    IF ~e.exists THEN USBVerificationResult(FALSE, FALSE, FALSE, "not_mounted")
    ELSE LET mt == IF e.mounted THEN "mount_point" ELSE "directory" IN
         IF e.write = "oserror" THEN USBVerificationResult(e.mounted, FALSE, FALSE, mt)
         ELSE USBVerificationResult(e.mounted, e.write = "ok",
                                    e.free > min_space_bytes, mt)

\* Lines 33-88 and 93-123: the result, if the probe file is then removed.
verify_usb_mounted(e, min_space_bytes) ==
    IF ~e.exists THEN USBVerificationResult(FALSE, FALSE, FALSE, "not_mounted")
    ELSE LET mt == IF e.mounted THEN "mount_point" ELSE "directory" IN
         IF e.write = "oserror" THEN USBVerificationResult(e.mounted, FALSE, FALSE, mt)
         ELSE USBVerificationResult(e.mounted, e.write = "ok",
                                    e.free >= min_space_bytes, mt)

\* The probe file exists from its creation (line 75) to its removal (line 91
\* or 97); a probe of a missing or read-only root creates none.
ProbeCreates(e) == e.exists /\ e.writable
ProbeWrite(f, e) == IF ProbeCreates(e) THEN Put(f, "T", File(0)) ELSE f

\* Lines 91 and 95-99: test_file.unlink().  A probe that found no root
\* returned at line 36.  An unlink that raises leaves the file, and the
\* handler of line 93 reports a root that takes no write.
ProbeUnlink(f, v) ==
    IF v.mount_type = "not_mounted" \/ f["T"].kind = "none" THEN {Done(f)}
    ELSE {Done(Remove(f, "T")), Fault(f)}

ProbeResult(v, o) ==
    IF o.ok THEN v ELSE USBVerificationResult(v.is_mounted, FALSE, FALSE, v.mount_type)

\* One whole call of verify_usb_mounted on a root that shows e: the file
\* system it leaves and the result it returns.
Probe(f, e, min_space_bytes) ==
    LET v == verify_usb_mounted(e, min_space_bytes)
    IN {[fs |-> o.fs, fault |-> o.fault, check |-> ProbeResult(v, o)] :
           o \in ProbeUnlink(ProbeWrite(f, e), v)}

usb_available(v) == v.is_mounted /\ v.is_writable /\ v.has_space

----------------------------------------------------------------------------
(* The catalog *)

\* ModelInfo.__post_init__: the type, from the content found at the path.
\* rglob('*.gguf') is tried before rglob('*.mlx').
ModelType(f, p) ==
    IF IsFile(f, p) THEN "single_file"
    ELSE IF IsDir(f, p) THEN
        LET names == DOMAIN Resolve(f, f[p]).files IN
        IF \E n \in names : Suffix(n) = ".gguf" THEN "gguf_dir"
        ELSE IF \E n \in names : Suffix(n) = ".mlx" THEN "mlx_dir"
        ELSE "other_dir"
    ELSE "unknown"

\* ModelManager._calculate_size
calculate_size(f, p) == BytesAt(f, p)

\* _process_model_directory for an entry that is neither a link nor linked inside
ScanLocal(f) ==
    [name |-> PlainName, is_symlink |-> FALSE, linked_to |-> <<>>,
     has_internal_symlinks |-> FALSE, internal_symlink_target |-> <<>>,
     size_bytes |-> calculate_size(f, "E"), type |-> ModelType(f, "E")]

\* should_keep_local with DEFAULT_KEEP_LOCAL_PATTERNS: "*.json" matches "c.json".
should_keep_local(n) == n = "c.json"

\* The names of the regular files below the entry (is_file() follows links).
RegularFiles(f) ==
    IF IsDir(f, "E")
    THEN {n \in DOMAIN Resolve(f, f["E"]).files :
             Resolve(f, Resolve(f, f["E"]).files[n]).kind = "file"}
    ELSE {}

\* Lines 261-265: the MLX/MX indicators of the entry.
mlx_indicators(m) ==
    \/ "mlx" \in NameTokens(m.name)
    \/ {"mx", "fp"} \subseteq NameTokens(m.name)
    \/ m.type = "mlx_dir"

\* A variant of _determine_symlink_strategy that looks at the indicators
\* before the configured strategy.
determine_indicators_first(cfg, m, f) ==
    IF mlx_indicators(m) THEN "file"
    ELSE IF cfg \in {"directory", "file"} THEN cfg
    ELSE IF IsDir(f, "E") /\ \E n \in RegularFiles(f) : HasMxIndicator(n) THEN "file"
    ELSE IF IsDir(f, "E") /\ \E n \in RegularFiles(f) : Suffix(n) = ".gguf"
         THEN "directory"
    ELSE "file"

\* A variant of _determine_symlink_strategy that looks for a '.gguf' file
\* before the mixed-precision file names.
determine_gguf_first(cfg, m, f) ==
    IF cfg \in {"directory", "file"} THEN cfg
    ELSE IF mlx_indicators(m) THEN "file"
    ELSE IF IsDir(f, "E") /\ \E n \in RegularFiles(f) : Suffix(n) = ".gguf"
         THEN "directory"
    ELSE "file"

\* _determine_symlink_strategy.  The safetensors test of lines 276-277 is
\* reached only when no indicator holds and never returns.
determine_symlink_strategy(cfg, m, f) ==
    IF cfg \in {"directory", "file"} THEN cfg
    ELSE IF mlx_indicators(m) THEN "file"
    ELSE IF IsDir(f, "E") /\ \E n \in RegularFiles(f) : HasMxIndicator(n) THEN "file"
    ELSE IF IsDir(f, "E") /\ \E n \in RegularFiles(f) : Suffix(n) = ".gguf"
         THEN "directory"
    ELSE "file"

\* A variant of lines 312-315 that moves only the files above the threshold.
FilesToMoveAbove(f) ==
    LET d == f["E"].files
    IN SelectSeq(NameOrder, LAMBDA n :
           /\ n \in DOMAIN d
           /\ Resolve(f, d[n]).kind = "file"
           /\ ~should_keep_local(n)
           /\ Resolve(f, d[n]).size > size_threshold)

\* _move_with_file_symlinks, lines 303-317: the files to move and the files
\* to keep, in directory order.
FilesToMove(f) ==
    LET d == f["E"].files
    IN SelectSeq(NameOrder, LAMBDA n :
           /\ n \in DOMAIN d
           /\ Resolve(f, d[n]).kind = "file"
           /\ ~should_keep_local(n)
           /\ Resolve(f, d[n]).size >= size_threshold)

FilesToKeep(f) ==
    LET d == f["E"].files
    IN SelectSeq(NameOrder, LAMBDA n :
           /\ n \in DOMAIN d
           /\ Resolve(f, d[n]).kind = "file"
           /\ (should_keep_local(n) \/ Resolve(f, d[n]).size < size_threshold))

----------------------------------------------------------------------------
(* Initial states *)

\* Sizes of the files of an entry beside its main weight file.
SmallSizes == {0, 1}

EntryDirs ==
    {Dir(m) : m \in UNION {[S -> {File(s) : s \in 0..MaxFileSize}] :
                            S \in (SUBSET EntryNames) \ {{}}}}

\* The entries the catalog lists: a single file, or a directory of non-zero
\* total size (_process_model_directory skips directories of size 0).
Entries ==
    {File(s) : s \in 0..MaxFileSize}
    \cup {d \in EntryDirs :
            /\ FileBytes([p \in Paths |-> None], d) > 0
            /\ \A n \in DOMAIN d.files \ {"w.gguf"} : d.files[n].size \in SmallSizes}

\* The configurations: the default threshold with every strategy setting, and
\* a threshold of zero with the per-file strategy, which is the one that
\* always reads it.
Configurations ==
    {[symlink_strategy |-> st, size_threshold |-> FileSizeThreshold] :
        st \in {"auto", "directory", "file"}}
    \cup {[symlink_strategy |-> "file", size_threshold |-> 0]}

\* A stale object at the destination, left by an earlier run.
StaleDir == Dir([x \in {"old"} |-> File(1)])
StaleObjects == {StaleDir, File(1)}

NoFrame == [source |-> "", destination |-> "", monitor |-> FALSE,
            backup_path |-> FALSE, ret |-> "", err |-> ""]
MonitorOff == [active |-> FALSE, disconnected |-> FALSE, pc |-> "off",
               usb_check |-> NoVerification]
NoFiles == [files |-> <<>>, keep_local_files |-> <<>>, i |-> 0, moved_files |-> <<>>,
           created_symlinks |-> <<>>, backups |-> <<>>, usb_gone |-> FALSE]
NoResult == [op |-> "none", status |-> "none", error |-> ""]
NoHist == [trigger |-> "", rollback_attempted |-> FALSE, rollback_error |-> FALSE,
           renamed_aside |-> FALSE, relocated |-> -1]
NoEnv == [exists |-> TRUE, mounted |-> TRUE, writable |-> TRUE, free |-> MaxFree,
          write |-> "ok"]

Init ==
    /\ \E e \in Entries, d \in StaleObjects \cup {None}, pub \in {None, EmptyDir} :
          /\ (d # None => pub = EmptyDir)
          /\ fs = [p \in Paths |-> IF p = "E" THEN e
                                   ELSE IF p = "D" THEN d
                                   ELSE IF p = "P" THEN pub ELSE None]
    /\ model = ScanLocal(fs)
    /\ \E cfg \in Configurations :
          symlink_strategy = cfg.symlink_strategy /\ size_threshold = cfg.size_threshold
    /\ pc = "idle"
    /\ op = "none"
    /\ env = NoEnv
    /\ usb_verification = NoVerification
    /\ sm = NoFrame
    /\ mon = MonitorOff
    /\ fq = NoFiles
    /\ err = ""
    /\ result = NoResult
    /\ pre = fs
    /\ hist = NoHist
    /\ budget = [ops |-> 0, faults |-> 0]

----------------------------------------------------------------------------
(* Control *)

Goto(l) == pc' = l /\ UNCHANGED <<op, result, err>>

Return(o, st, e) ==
    /\ pc' = "idle"
    /\ op' = "none"
    /\ err' = ""
    /\ result' = [op |-> o, status |-> st, error |-> e]

\* An I/O error is raised only while the behaviour's budget of them lasts.
Allowed(o) == ~o.fault \/ budget.faults < MaxFaults
Spend(o) == [budget EXCEPT !.faults = IF o.fault THEN @ + 1 ELSE @]
Called == [budget EXCEPT !.ops = @ + 1]

\* The bookkeeping of a call that starts: the size the entry had before the
\* relocation that has just succeeded, if the call follows one.
Started == [NoHist EXCEPT !.relocated =
               IF result.op = "relocate" /\ result.status = "ok"
               THEN BytesAt(pre, "E") ELSE -1]

\* The first failure of a transaction is its trigger.
Triggered(h, k) == IF h.trigger = "" THEN [h EXCEPT !.trigger = k] ELSE h

----------------------------------------------------------------------------
(* ModelManager.move_model_to_usb *)

\* The call, refresh_usb_status and the three pre-flight tests of lines
\* 386-393.  The catalog is the program's; it is not used after a direct call
\* of the engine.
StartRelocate ==
    /\ pc = "idle"
    /\ result.op # "safe_move"
    /\ budget.ops < MaxOps
    /\ mon.pc = "off"
    /\ \E e \in Envs : \E o \in Probe(fs, e, MinSpaceDefault) :
          LET usb_status == o.check IN
          /\ Allowed(o)
          /\ budget' = [ops |-> budget.ops + 1, faults |-> Spend(o).faults]
          /\ env' = e
          /\ fs' = o.fs
          /\ usb_verification' = usb_status
          /\ IF ~usb_status.is_mounted THEN Return("relocate", "fail", "NotMounted")
             ELSE IF ~usb_status.is_writable THEN Return("relocate", "fail", "NotWritable")
             ELSE IF ~usb_status.has_space
             THEN Return("relocate", "fail", "InsufficientSpace")
             ELSE pc' = "mv_lookup" /\ op' = "relocate" /\ result' = NoResult /\ err' = ""
    /\ pre' = fs
    /\ hist' = Started
    /\ sm' = NoFrame
    /\ fq' = NoFiles
    /\ mon' = MonitorOff
    /\ UNCHANGED <<model, symlink_strategy, size_threshold>>

\* A variant of lines 395-414 without the destination test of lines 412-414.
MvLookupUnchecked ==
    /\ pc = "mv_lookup"
    /\ IF model.is_symlink
       THEN fs' = fs /\ Return("relocate", "fail", "AlreadyOnUsb")
       ELSE /\ fs' = IF fs["P"].kind = "none" THEN Put(fs, "P", EmptyDir) ELSE fs
            /\ Goto("mv_space")
    /\ UNCHANGED <<model, env, usb_verification, symlink_strategy, size_threshold, sm, mon, fq,
                   pre, hist, budget>>

\* Lines 395-414: the entry, the publisher directory, the destination test.
MvLookup ==
    /\ pc = "mv_lookup"
    /\ IF model.is_symlink
       THEN fs' = fs /\ Return("relocate", "fail", "AlreadyOnUsb")
       ELSE /\ fs' = IF fs["P"].kind = "none" THEN Put(fs, "P", EmptyDir) ELSE fs
            /\ IF Exists(fs, "D")
               THEN Return("relocate", "fail", "DestinationExists")
               ELSE Goto("mv_space")
    /\ UNCHANGED <<model, env, usb_verification, symlink_strategy, size_threshold, sm, mon, fq,
                   pre, hist>>
    /\ UNCHANGED budget

\* get_usb_space_info and lines 416-421.
MvSpace ==
    /\ pc = "mv_space"
    /\ LET free == IF usb_available(usb_verification) THEN env.free ELSE 0
           required_space == model.size_bytes + MIN_FREE_SPACE_BUFFER
       IN IF required_space > free
          THEN Return("relocate", "fail", "InsufficientSpace") /\ env' = env
          ELSE Goto("mv_strategy") /\ env' = NoEnv
    /\ UNCHANGED <<fs, model, usb_verification, symlink_strategy, size_threshold, sm, mon,
                   fq, pre, hist>>
    /\ UNCHANGED budget

\* A variant of lines 430-442 without the test of lines 319-320 for an empty
\* list of files to move.
MvStrategyUnchecked ==
    /\ pc = "mv_strategy"
    /\ LET strategy == determine_symlink_strategy(symlink_strategy, model, fs)
       IN IF strategy = "file" /\ IsDir(fs, "E")
          THEN /\ Goto("fl_mkdir")
               /\ fq' = [NoFiles EXCEPT !.files = FilesToMove(fs),
                                        !.keep_local_files = FilesToKeep(fs),
                                        !.i = 1]
               /\ UNCHANGED <<sm, hist>>
          ELSE /\ Goto("sm_probe")
               /\ sm' = [NoFrame EXCEPT !.source = "E", !.destination = "D",
                                        !.monitor = TRUE, !.ret = "dirlink"]
               /\ UNCHANGED <<fq, hist>>
    /\ UNCHANGED <<fs, model, env, usb_verification, symlink_strategy, size_threshold, mon, pre>>
    /\ UNCHANGED budget

\* Lines 430-442 with _move_with_file_symlinks, lines 294-325, and
\* _move_with_directory_symlink, line 338: the strategy and the call it makes.
MvStrategy ==
    /\ pc = "mv_strategy"
    /\ LET strategy == determine_symlink_strategy(symlink_strategy, model, fs)
       IN IF strategy = "file" /\ IsDir(fs, "E")
          THEN IF FilesToMove(fs) = <<>>
               THEN /\ pc' = "mv_except"
                    /\ err' = "NoEligibleFiles"
                    /\ hist' = Triggered(hist, "NoEligibleFiles")
                    /\ UNCHANGED <<op, result, sm, fq>>
               ELSE /\ Goto("fl_mkdir")
                    /\ fq' = [NoFiles EXCEPT !.files = FilesToMove(fs),
                                             !.keep_local_files = FilesToKeep(fs),
                                             !.i = 1]
                    /\ UNCHANGED <<sm, hist>>
          ELSE /\ Goto("sm_probe")
               /\ sm' = [NoFrame EXCEPT !.source = "E", !.destination = "D",
                                        !.monitor = TRUE, !.ret = "dirlink"]
               /\ UNCHANGED <<fq, hist>>
    /\ UNCHANGED <<fs, model, env, usb_verification, symlink_strategy, size_threshold, mon, pre>>
    /\ UNCHANGED budget

\* _move_with_directory_symlink, lines 341-351: the link, its health, the record.
check_symlink_health(f, p) ==
    LET is_link == Exists(f, p) /\ IsSymlink(f, p)
        target == f[p].to
        target_exists == is_link /\ ~IsRelative(target) /\ Lookup(f, target).kind # "none"
    IN [is_symlink |-> is_link, exists |-> Exists(f, p),
        target_exists |-> target_exists, is_broken |-> is_link /\ ~target_exists,
        size_match |-> target_exists /\ (IsFile(f, p) \/ IsDir(f, p))]

DlSymlink ==
    /\ pc = "dl_symlink"
    /\ IF fs["E"].kind # "none"
       THEN /\ pc' = "mv_except" /\ err' = "IOError"
            /\ hist' = Triggered(hist, "IOError")
            /\ UNCHANGED <<fs, model, op, result>>
       ELSE LET linked == Put(fs, "E", Link(<<"D">>)) IN
            /\ fs' = linked
            /\ IF check_symlink_health(linked, "E").is_broken
               THEN /\ pc' = "mv_except" /\ err' = "BrokenSymlink"
                    /\ hist' = Triggered(hist, "BrokenSymlink")
                    /\ UNCHANGED <<model, op, result>>
               ELSE /\ model' = [model EXCEPT !.is_symlink = TRUE, !.linked_to = <<"D">>]
                    /\ Return("relocate", "ok", "")
                    /\ hist' = hist
    /\ UNCHANGED <<env, usb_verification, symlink_strategy, size_threshold, sm, mon, fq, pre>>
    /\ UNCHANGED budget

\* Lines 444-451: the handler, and its attempt to bring the entry back.
MvExcept ==
    /\ pc = "mv_except"
    /\ hist' = [hist EXCEPT !.rollback_attempted = TRUE]
    /\ IF Exists(fs, "D") /\ ~Exists(fs, "E")
       THEN /\ Goto("sm_backup")
            /\ sm' = [NoFrame EXCEPT !.source = "D", !.destination = "E",
                                     !.ret = "recover"]
       ELSE Goto("mv_raise") /\ sm' = sm
    /\ UNCHANGED <<fs, model, env, usb_verification, symlink_strategy, size_threshold, mon, fq, pre>>
    /\ UNCHANGED budget

\* Line 452: raise RuntimeError(f"Failed to move model: {e}").
MvRaise ==
    /\ pc = "mv_raise"
    /\ Return("relocate", "fail", err)
    /\ UNCHANGED <<fs, model, env, usb_verification, symlink_strategy, size_threshold, sm, mon,
                   fq, pre, hist>>
    /\ UNCHANGED budget

----------------------------------------------------------------------------
(* safe_move_with_verification and _monitored_move *)

BackupOf(p) == IF p = "D" THEN "Db" ELSE "Eb"

\* The engine called directly on a local entry and a destination whose
\* parent directory exists, with or without a monitor root, before the
\* catalog has been used.
StartSafeMove ==
    /\ pc = "idle"
    /\ budget.ops = 0
    /\ fs["P"].kind = "dir"
    /\ budget' = Called
    /\ mon.pc = "off"
    /\ fs["E"].kind \in {"file", "dir"}
    /\ ~model.has_internal_symlinks
    /\ \E m \in BOOLEAN :
          /\ sm' = [NoFrame EXCEPT !.source = "E", !.destination = "D",
                                   !.monitor = m, !.ret = "api"]
          /\ pc' = IF m THEN "sm_probe" ELSE "sm_backup"
    /\ op' = "safe_move"
    /\ result' = NoResult
    /\ pre' = fs
    /\ hist' = Started
    /\ env' = NoEnv
    /\ fq' = NoFiles
    /\ mon' = MonitorOff
    /\ UNCHANGED <<fs, model, usb_verification, symlink_strategy, size_threshold, err>>

\* How safe_move_with_verification hands control back: to
\* _move_with_directory_symlink, to the handler of move_model_to_usb (which
\* swallows what its recovery call raises), or to the direct caller.
SmLeave(ok, kind) ==
    IF sm.ret = "dirlink"
    THEN /\ pc' = IF ok THEN "dl_symlink" ELSE "mv_except"
         /\ err' = IF ok THEN "" ELSE kind
         /\ UNCHANGED <<op, result>>
    ELSE IF sm.ret = "recover"
    THEN Goto("mv_raise")
    ELSE Return("safe_move", IF ok THEN "ok" ELSE "fail", IF ok THEN "" ELSE kind)

\* Lines 262-265: the pre-operation probe of the monitor root; the error is
\* raised outside the try block, so no recovery runs here.
SmProbe ==
    /\ pc = "sm_probe"
    /\ \E e \in Envs : \E o \in Probe(fs, e, MinSpaceDefault) :
          LET usb_check == o.check IN
          /\ Allowed(o)
          /\ budget' = Spend(o)
          /\ fs' = o.fs
          /\ IF usb_check.is_mounted /\ usb_check.is_writable
             THEN Goto("sm_backup")
             ELSE SmLeave(FALSE, "PrecheckFailed")
    /\ UNCHANGED <<model, env, usb_verification, symlink_strategy, size_threshold, sm, mon, fq, pre, hist>>

\* An exception inside the try block of safe_move_with_verification.
SmRaise(kind) ==
    /\ pc' = "sm_rb1"
    /\ sm' = [sm EXCEPT !.err = kind,
                        !.backup_path = @ \/ (pc = "sm_backup" /\ Exists(fs, sm.destination))]
    /\ hist' = Triggered(hist, kind)
    /\ UNCHANGED <<op, result, err>>

\* Lines 269-271: an object at the destination is renamed aside.
SmBackup ==
    /\ pc = "sm_backup"
    /\ IF Exists(fs, sm.destination)
       THEN \E o \in ShutilMove(fs, sm.destination, BackupOf(sm.destination)) :
               /\ Allowed(o)
               /\ budget' = Spend(o)
               /\ fs' = o.fs
               /\ IF o.ok
                  THEN Goto("sm_size") /\ sm' = [sm EXCEPT !.backup_path = TRUE]
                       /\ hist' = [hist EXCEPT !.renamed_aside = TRUE]
                  ELSE SmRaise("IOError")
       ELSE Goto("sm_size") /\ UNCHANGED <<fs, sm, hist, budget>>
    /\ UNCHANGED <<model, env, usb_verification, symlink_strategy, size_threshold, mon, fq, pre>>

\* A variant of line 281 that sends a source of exactly 1 GiB to _monitored_move.
UseMonitoredMoveAtThreshold(f, frame) == (BytesAt(f, frame.source) >= GiB) \/ frame.monitor

\* Lines 274-281: the size of the source decides how it is moved.
UseMonitoredMove(f, frame) == (BytesAt(f, frame.source) > GiB) \/ frame.monitor

SmSize ==
    /\ pc = "sm_size"
    /\ IF UseMonitoredMove(fs, sm) THEN Goto("mm_start") ELSE Goto("sm_move")
    /\ UNCHANGED <<fs, model, env, usb_verification, symlink_strategy, size_threshold, sm, mon,
                   fq, pre, hist>>
    /\ UNCHANGED budget

\* Line 285: shutil.move.
SmMove ==
    /\ pc = "sm_move"
    /\ \E o \in ShutilMove(fs, sm.source, sm.destination) :
          /\ Allowed(o)
          /\ budget' = Spend(o)
          /\ fs' = o.fs
          /\ IF o.ok THEN Goto("sm_verify") /\ UNCHANGED <<sm, hist>>
             ELSE SmRaise("IOError")
    /\ UNCHANGED <<model, env, usb_verification, symlink_strategy, size_threshold, mon, fq, pre>>

\* _monitored_move, lines 199-224: the events, and the monitor thread if a
\* monitor root was given.
MmStart ==
    /\ pc = "mm_start"
    /\ mon' = IF sm.monitor
              THEN [active |-> TRUE, disconnected |-> FALSE, pc |-> "wait",
                    usb_check |-> NoVerification]
              ELSE mon
    /\ Goto("mm_move")
    /\ UNCHANGED <<fs, model, env, usb_verification, symlink_strategy, size_threshold, sm, fq,
                   pre, hist>>
    /\ UNCHANGED budget

\* The finally clause, lines 243-247: monitoring_active.clear().
StopMonitoring(m) == IF sm.monitor THEN [m EXCEPT !.active = FALSE] ELSE m

\* Lines 228-233: shutil.move for a file, shutil.copytree for a directory.
MmMove ==
    /\ pc = "mm_move"
    /\ \E o \in (IF IsFile(fs, sm.source)
                 THEN ShutilMove(fs, sm.source, sm.destination)
                 ELSE CopyTree(fs, sm.source, sm.destination)) :
          /\ Allowed(o)
          /\ budget' = Spend(o)
          /\ fs' = o.fs
          /\ IF o.ok
             THEN /\ Goto(IF IsFile(fs, sm.source) THEN "mm_check2" ELSE "mm_check1")
                  /\ UNCHANGED <<sm, hist, mon>>
             ELSE SmRaise("IOError") /\ mon' = StopMonitoring(mon)
    /\ UNCHANGED <<model, env, usb_verification, symlink_strategy, size_threshold, fq, pre>>

\* Lines 235-236: the checkpoint before the source is removed.
MmCheck1 ==
    /\ pc = "mm_check1"
    /\ IF sm.monitor /\ mon.disconnected
       THEN SmRaise("Disconnect") /\ mon' = StopMonitoring(mon)
       ELSE Goto("mm_rmtree") /\ UNCHANGED <<sm, hist, mon>>
    /\ UNCHANGED <<fs, model, env, usb_verification, symlink_strategy, size_threshold, fq, pre>>
    /\ UNCHANGED budget

\* Line 237: shutil.rmtree(source).
MmRmtree ==
    /\ pc = "mm_rmtree"
    /\ \E o \in Delete(fs, sm.source) :
          /\ Allowed(o)
          /\ budget' = Spend(o)
          /\ fs' = o.fs
          /\ IF o.ok THEN Goto("mm_check2") /\ UNCHANGED <<sm, hist, mon>>
             ELSE SmRaise("IOError") /\ mon' = StopMonitoring(mon)
    /\ UNCHANGED <<model, env, usb_verification, symlink_strategy, size_threshold, fq, pre>>

\* A variant of lines 240-247 that does not look at usb_disconnected.
MmCheck2Unchecked ==
    /\ pc = "mm_check2"
    /\ mon' = StopMonitoring(mon)
    /\ Goto("sm_verify") /\ UNCHANGED <<sm, hist>>
    /\ UNCHANGED <<fs, model, env, usb_verification, symlink_strategy, size_threshold, fq, pre>>
    /\ UNCHANGED budget

\* Lines 240-247: the checkpoint at completion, then the finally clause.
MmCheck2 ==
    /\ pc = "mm_check2"
    /\ mon' = StopMonitoring(mon)
    /\ IF sm.monitor /\ mon.disconnected
       THEN SmRaise("Disconnect")
       ELSE Goto("sm_verify") /\ UNCHANGED <<sm, hist>>
    /\ UNCHANGED <<fs, model, env, usb_verification, symlink_strategy, size_threshold, fq, pre>>
    /\ UNCHANGED budget

\* Lines 288-305 (and 373-390): a file must be non-empty; a directory must
\* hold a regular file and bytes; a path that is neither passes.
MoveVerified(f, p) ==
    IF IsFile(f, p) THEN BytesAt(f, p) # 0
    ELSE IF IsDir(f, p) THEN CountAt(f, p) # 0 /\ BytesAt(f, p) # 0
    ELSE TRUE

SmVerify ==
    /\ pc = "sm_verify"
    /\ IF MoveVerified(fs, sm.destination)
       THEN Goto("sm_cleanup") /\ UNCHANGED <<sm, hist>>
       ELSE SmRaise("VerificationFailed")
    /\ UNCHANGED <<fs, model, env, usb_verification, symlink_strategy, size_threshold, mon, fq, pre>>
    /\ UNCHANGED budget

\* Lines 308-314: the backup is deleted and the call returns True.
SmCleanup ==
    /\ pc = "sm_cleanup"
    /\ IF sm.backup_path /\ Exists(fs, BackupOf(sm.destination))
       THEN \E o \in Delete(fs, BackupOf(sm.destination)) :
               /\ Allowed(o)
               /\ budget' = Spend(o)
               /\ fs' = o.fs
               /\ IF o.ok THEN SmLeave(TRUE, "") /\ UNCHANGED <<sm, hist>>
                  ELSE SmRaise("CleanupError")
       ELSE fs' = fs /\ SmLeave(TRUE, "") /\ UNCHANGED <<sm, hist, budget>>
    /\ UNCHANGED <<model, env, usb_verification, symlink_strategy, size_threshold, mon, fq, pre>>

\* The recovery of lines 316-339.  A step that raises ends the recovery
\* (except Exception: pass); the original exception is raised either way.
RecoveryFailed(h) == [h EXCEPT !.rollback_attempted = TRUE, !.rollback_error = TRUE]
RecoveryStep(h) == [h EXCEPT !.rollback_attempted = TRUE]

\* A variant of lines 318-339 whose handler raises what the recovery raised.
SmRb1RaisesOwnError ==
    /\ pc = "sm_rb1"
    /\ IF Exists(fs, sm.destination)
       THEN \E o \in Delete(fs, sm.destination) :
               /\ Allowed(o)
               /\ budget' = Spend(o)
               /\ fs' = o.fs
               /\ IF o.ok THEN Goto("sm_rb2") /\ hist' = RecoveryStep(hist)
                  ELSE SmLeave(FALSE, "RollbackFailed") /\ hist' = RecoveryFailed(hist)
       ELSE /\ fs' = fs /\ budget' = budget
            /\ Goto("sm_rb2") /\ hist' = RecoveryStep(hist)
    /\ UNCHANGED <<model, env, usb_verification, symlink_strategy, size_threshold, sm, mon, fq, pre>>

\* Lines 320-324: what is at the destination is removed.
SmRb1 ==
    /\ pc = "sm_rb1"
    /\ IF Exists(fs, sm.destination)
       THEN \E o \in (IF IsSymlink(fs, sm.destination) /\ IsDir(fs, sm.destination)
                      THEN {Raised(fs)} ELSE Delete(fs, sm.destination)) :
               /\ Allowed(o)
               /\ budget' = Spend(o)
               /\ fs' = o.fs
               /\ IF o.ok THEN Goto("sm_rb2") /\ hist' = RecoveryStep(hist)
                  ELSE SmLeave(FALSE, sm.err) /\ hist' = RecoveryFailed(hist)
       ELSE /\ fs' = fs /\ budget' = budget
            /\ Goto("sm_rb2") /\ hist' = RecoveryStep(hist)
    /\ UNCHANGED <<model, env, usb_verification, symlink_strategy, size_threshold, sm, mon, fq, pre>>

\* Lines 327-328: "restore source from backup".
RestoreSourceFromBackup(f, frame) == ShutilMove(f, BackupOf(frame.destination), frame.source)

SmRb2 ==
    /\ pc = "sm_rb2"
    /\ IF sm.backup_path /\ Exists(fs, BackupOf(sm.destination))
       THEN \E o \in RestoreSourceFromBackup(fs, sm) :
               /\ Allowed(o)
               /\ budget' = Spend(o)
               /\ fs' = o.fs
               /\ IF o.ok THEN Goto("sm_rb3") /\ hist' = hist
                  ELSE SmLeave(FALSE, sm.err) /\ hist' = RecoveryFailed(hist)
       ELSE Goto("sm_rb3") /\ UNCHANGED <<fs, hist, budget>>
    /\ UNCHANGED <<model, env, usb_verification, symlink_strategy, size_threshold, sm, mon, fq, pre>>

\* Lines 331-339: the backup goes back to the destination if it is still
\* there, and the original exception is raised.
SmRb3 ==
    /\ pc = "sm_rb3"
    /\ IF sm.backup_path /\ ~Exists(fs, sm.destination)
          /\ Exists(fs, BackupOf(sm.destination))
       THEN \E o \in ShutilMove(fs, BackupOf(sm.destination), sm.destination) :
               /\ Allowed(o)
               /\ budget' = Spend(o)
               /\ fs' = o.fs
               /\ hist' = IF o.ok THEN hist ELSE RecoveryFailed(hist)
       ELSE UNCHANGED <<fs, hist, budget>>
    /\ SmLeave(FALSE, sm.err)
    /\ UNCHANGED <<model, env, usb_verification, symlink_strategy, size_threshold, sm, mon, fq, pre>>

----------------------------------------------------------------------------
(* The monitor thread of _monitored_move, lines 204-218 *)

\* Line 209, false: the loop ends.
MonitorExit ==
    /\ mon.pc = "wait"
    /\ ~mon.active
    /\ mon' = [mon EXCEPT !.pc = "off"]
    /\ UNCHANGED <<fs, pc, op, model, env, usb_verification, symlink_strategy, size_threshold, sm,
                   fq, err, result, pre, hist>>
    /\ UNCHANGED budget

\* Line 209, true: the loop test finds monitoring_active set.  The test and
\* the call of line 211 are two steps of the thread: the main thread may
\* clear monitoring_active between them.
MonitorLoop ==
    /\ mon.pc = "wait"
    /\ mon.active
    /\ mon' = [mon EXCEPT !.pc = "enter"]
    /\ UNCHANGED <<fs, pc, op, model, env, usb_verification, symlink_strategy, size_threshold, sm,
                   fq, err, result, pre, hist>>
    /\ UNCHANGED budget

\* Lines 210-211: verify_usb_mounted is called and writes its probe file.
MonitorProbe1 ==
    /\ mon.pc = "enter"
    /\ \E e \in Envs :
          /\ mon' = [mon EXCEPT !.pc = "probe", !.usb_check = verify_usb_mounted(e, 0)]
          /\ fs' = ProbeWrite(fs, e)
    /\ UNCHANGED <<pc, op, model, env, usb_verification, symlink_strategy, size_threshold, sm, fq,
                   err, result, pre, hist>>
    /\ UNCHANGED budget

\* Lines 212-218: the probe returns; an unhealthy root sets usb_disconnected.
MonitorProbe2 ==
    /\ mon.pc = "probe"
    /\ \E o \in ProbeUnlink(fs, mon.usb_check) :
          LET usb_check == ProbeResult(mon.usb_check, o) IN
          /\ Allowed(o)
          /\ budget' = Spend(o)
          /\ fs' = o.fs
          /\ mon' = IF usb_check.is_mounted /\ usb_check.is_writable
                    THEN [mon EXCEPT !.pc = "wait", !.usb_check = NoVerification]
                    ELSE [mon EXCEPT !.pc = "off", !.disconnected = TRUE,
                                     !.usb_check = NoVerification]
    /\ UNCHANGED <<pc, op, model, env, usb_verification, symlink_strategy, size_threshold, sm, fq,
                   err, result, pre, hist>>

----------------------------------------------------------------------------
(* safe_move_with_file_symlinks *)

SetLeaf(f, p, n, x) == [f EXCEPT ![p] = Dir(Extend(f[p].files, n, x))]
DelLeaf(f, p, n) == [f EXCEPT ![p] = Dir(Restrict(f[p].files, DOMAIN f[p].files \ {n}))]
HasLeaf(f, p, n) == f[p].kind = "dir" /\ n \in DOMAIN f[p].files
\* Path.exists() of a file of a directory: a link must resolve.
LeafExists(f, p, n) == HasLeaf(f, p, n) /\ Resolve(f, f[p].files[n]).kind # "none"

FlRaise(kind) ==
    /\ pc' = "fl_rb1"
    /\ err' = kind
    /\ hist' = Triggered(hist, kind)
    /\ UNCHANGED <<op, result>>

\* Line 679: usb_directory.mkdir(parents=True, exist_ok=True).
FlMkdir ==
    /\ pc = "fl_mkdir"
    /\ \E o \in (IF fs["D"].kind = "dir" THEN {Done(fs)}
                 ELSE IF fs["D"].kind = "none"
                 THEN {Done(Put(fs, "D", EmptyDir)), Fault(fs)}
                 ELSE {Raised(fs)}) :
          /\ Allowed(o)
          /\ budget' = Spend(o)
          /\ fs' = o.fs
          /\ IF o.ok THEN Goto("fl_move") /\ hist' = hist ELSE FlRaise("IOError")
    /\ UNCHANGED <<model, env, usb_verification, symlink_strategy, size_threshold, sm, mon, fq, pre>>

\* A variant of lines 682-700 that copies the file to the removable root and
\* leaves the original at its place.
MoveFileToUsbCopy(f, n) ==
    LET x == f["E"].files[n]
    IN {Done(SetLeaf(f, "D", n, x)),
        Fault(SetLeaf(f, "D", n, File(0))),
        Fault(f)}

\* Lines 682-700, one file: moved to the removable root, replaced by a link,
\* the link verified.  A move that raises leaves at most a partial target;
\* it may raise because the removable root has gone, and then the root is
\* still gone when the recovery of lines 709-723 runs.
MoveFileToUsb(f, n) ==
    LET x == f["E"].files[n]
    IN {Done(SetLeaf(SetLeaf(f, "D", n, x), "E", n, Link(<<"D", n>>))),
        Fault(SetLeaf(f, "D", n, File(0))),
        Fault(f)}

FlMove ==
    /\ pc = "fl_move"
    /\ LET n == fq.files[fq.i] IN
       \E o \in MoveFileToUsb(fs, n), gone \in BOOLEAN :
          /\ gone => o.fault
          /\ Allowed(o)
          /\ budget' = Spend(o)
          /\ fs' = o.fs
          /\ IF o.ok
             THEN /\ fq' = [fq EXCEPT !.i = @ + 1,
                                      !.moved_files = Append(@, n),
                                      !.created_symlinks = Append(@, n)]
                  /\ Goto(IF fq.i = Len(fq.files) THEN "fl_verify" ELSE "fl_move")
                  /\ hist' = hist
             ELSE FlRaise("IOError") /\ fq' = [fq EXCEPT !.usb_gone = gone]
    /\ UNCHANGED <<model, env, usb_verification, symlink_strategy, size_threshold, sm, mon, pre>>

\* Lines 703-707, then _move_with_file_symlinks, lines 327-331.
FlVerify ==
    /\ pc = "fl_verify"
    /\ IF \A j \in 1..Len(fq.files) : LeafExists(fs, "E", fq.files[j])
       THEN /\ model' = [model EXCEPT !.has_internal_symlinks = TRUE,
                                      !.internal_symlink_target = <<"D">>]
            /\ Return("relocate", "ok", "")
            /\ hist' = hist
       ELSE FlRaise("IOError") /\ model' = model
    /\ UNCHANGED <<fs, env, usb_verification, symlink_strategy, size_threshold, sm, mon, fq, pre>>
    /\ UNCHANGED budget

\* Lines 711-716: the links created so far are removed.
RECURSIVE DelLeaves(_, _, _)
DelLeaves(f, p, q) ==
    IF q = <<>> THEN f
    ELSE DelLeaves(IF HasLeaf(f, p, Head(q)) /\ f[p].files[Head(q)].kind = "link"
                   THEN DelLeaf(f, p, Head(q)) ELSE f, p, Tail(q))

FlRb1 ==
    /\ pc = "fl_rb1"
    /\ fs' = DelLeaves(fs, "E", fq.created_symlinks)
    /\ hist' = [hist EXCEPT !.rollback_attempted = TRUE]
    /\ fq' = [fq EXCEPT !.i = 1]
    /\ Goto("fl_rb2")
    /\ UNCHANGED <<model, env, usb_verification, symlink_strategy, size_threshold, sm, mon, pre>>
    /\ UNCHANGED budget

\* Lines 718-723, one moved file: brought back if it is on the removable
\* root and not at its place; what the move raises is swallowed.  On a root
\* that has gone usb_target.exists() is False.
MoveFileBack(f, n, gone) ==
    IF ~gone /\ LeafExists(f, "D", n) /\ ~LeafExists(f, "E", n)
    THEN LET x == f["D"].files[n]
         IN {Done(SetLeaf(DelLeaf(f, "D", n), "E", n, x)),
             Fault(SetLeaf(f, "E", n, File(0))),
             Fault(f)}
    ELSE {Done(f)}

\* Line 725: raise RuntimeError(f"Failed to create file symlinks: {e}").
FlRb2 ==
    /\ pc = "fl_rb2"
    /\ IF fq.i > Len(fq.moved_files)
       THEN /\ pc' = "mv_except"
            /\ UNCHANGED <<fs, fq, hist, op, result, err, budget>>
       ELSE \E o \in MoveFileBack(fs, fq.moved_files[fq.i], fq.usb_gone) :
               /\ Allowed(o)
               /\ budget' = Spend(o)
               /\ fs' = o.fs
               /\ fq' = [fq EXCEPT !.i = @ + 1]
               /\ hist' = IF o.ok THEN hist ELSE [hist EXCEPT !.rollback_error = TRUE]
               /\ Goto("fl_rb2")
    /\ UNCHANGED <<model, env, usb_verification, symlink_strategy, size_threshold, sm, mon, pre>>

----------------------------------------------------------------------------
(* ModelManager.move_model_from_usb *)

\* Lines 456-468: an entry that is not on the removable root is rejected; for
\* the others refresh_usb_status and the two pre-flight tests.
StartRestore ==
    /\ pc = "idle"
    /\ result.op # "safe_move"
    /\ budget.ops < MaxOps
    /\ mon.pc = "off"
    /\ IF ~model.is_symlink /\ ~model.has_internal_symlinks
       THEN /\ Return("restore", "fail", "NotOnUsb")
            /\ budget' = Called
            /\ env' = NoEnv
            /\ UNCHANGED <<fs, usb_verification>>
       ELSE \E e \in Envs : \E o \in Probe(fs, e, MinSpaceDefault) :
            LET usb_status == o.check IN
            /\ Allowed(o)
            /\ budget' = [ops |-> budget.ops + 1, faults |-> Spend(o).faults]
            /\ fs' = o.fs
            /\ usb_verification' = usb_status
            /\ IF ~usb_status.is_mounted
               THEN Return("restore", "fail", "NotMounted") /\ env' = e
               ELSE IF ~usb_status.is_writable
               THEN Return("restore", "fail", "NotWritable") /\ env' = e
               ELSE /\ pc' = "rs_source" /\ op' = "restore" /\ result' = NoResult
                    /\ err' = "" /\ env' = NoEnv
    /\ pre' = fs
    /\ hist' = Started
    /\ sm' = NoFrame
    /\ fq' = NoFiles
    /\ mon' = MonitorOff
    /\ UNCHANGED <<model, symlink_strategy, size_threshold>>

\* Lines 470-510: the source on the removable root must exist; the local
\* root is taken to have room for the entry.
RsSource ==
    /\ pc = "rs_source"
    /\ IF model.is_symlink
       THEN IF Lookup(fs, model.linked_to).kind = "none"
            THEN Return("restore", "fail", "TargetMissing") /\ UNCHANGED <<sm, fq>>
            ELSE /\ Goto("sr_validate")
                 /\ sm' = [NoFrame EXCEPT !.source = model.linked_to[1],
                                          !.destination = "E", !.ret = "restore"]
                 /\ fq' = fq
       ELSE IF Lookup(fs, model.internal_symlink_target).kind = "none"
            THEN Return("restore", "fail", "TargetMissing") /\ UNCHANGED <<sm, fq>>
            ELSE Goto("ri_scan") /\ UNCHANGED <<sm, fq>>
    /\ UNCHANGED <<fs, model, env, usb_verification, symlink_strategy, size_threshold, mon, pre, hist>>
    /\ UNCHANGED budget

----------------------------------------------------------------------------
(* safe_restore_from_usb(symlink_path = E, usb_source, local_destination = E) *)

SrRaise(kind) ==
    /\ pc' = "sr_rb1"
    /\ sm' = [sm EXCEPT !.err = kind, !.backup_path = @ \/ pc = "sr_backup"]
    /\ hist' = Triggered(hist, kind)
    /\ UNCHANGED <<op, result, err>>

\* Lines 349-356: the input is validated inside the try block.
RestoreInputValid(f, src) ==
    /\ Exists(f, "E")
    /\ IsSymlink(f, "E")
    /\ Exists(f, src)
    /\ ~(Exists(f, "E") /\ ~IsSymlink(f, "E"))

SrValidate ==
    /\ pc = "sr_validate"
    /\ IF RestoreInputValid(fs, sm.source)
       THEN Goto("sr_backup") /\ UNCHANGED <<sm, hist>>
       ELSE SrRaise("InvalidInput")
    /\ UNCHANGED <<fs, model, env, usb_verification, symlink_strategy, size_threshold, mon, fq, pre>>
    /\ UNCHANGED budget

\* Lines 359-364: an old backup that exists() is unlinked, then the link is
\* copied aside without following it (os.symlink raises on an existing name).
SrBackup ==
    /\ pc = "sr_backup"
    /\ LET cleared == IF Exists(fs, "Eb") THEN Remove(fs, "Eb") ELSE fs
       IN IF cleared["Eb"].kind # "none"
          THEN fs' = cleared /\ SrRaise("IOError")
          ELSE /\ fs' = Put(cleared, "Eb", fs["E"])
               /\ sm' = [sm EXCEPT !.backup_path = TRUE]
               /\ Goto("sr_unlink")
               /\ hist' = hist
    /\ UNCHANGED <<model, env, usb_verification, symlink_strategy, size_threshold, mon, fq, pre>>
    /\ UNCHANGED budget

\* Line 367: symlink_path.unlink().
SrUnlink ==
    /\ pc = "sr_unlink"
    /\ fs' = Remove(fs, "E")
    /\ Goto("sr_move")
    /\ UNCHANGED <<model, env, usb_verification, symlink_strategy, size_threshold, sm, mon, fq,
                   pre, hist>>
    /\ UNCHANGED budget

\* Line 370: shutil.move(usb_source, local_destination).
SrMove ==
    /\ pc = "sr_move"
    /\ \E o \in ShutilMove(fs, sm.source, sm.destination) :
          /\ Allowed(o)
          /\ budget' = Spend(o)
          /\ fs' = o.fs
          /\ IF o.ok THEN Goto("sr_verify") /\ UNCHANGED <<sm, hist>>
             ELSE SrRaise("IOError")
    /\ UNCHANGED <<model, env, usb_verification, symlink_strategy, size_threshold, mon, fq, pre>>

\* Lines 373-390.
SrVerify ==
    /\ pc = "sr_verify"
    /\ IF MoveVerified(fs, sm.destination)
       THEN Goto("sr_cleanup") /\ UNCHANGED <<sm, hist>>
       ELSE SrRaise("VerificationFailed")
    /\ UNCHANGED <<fs, model, env, usb_verification, symlink_strategy, size_threshold, mon, fq, pre>>
    /\ UNCHANGED budget

\* Lines 393-394: the backup is unlinked if backup_symlink.exists().
CleanupBackup(f) == IF Exists(f, "Eb") THEN Remove(f, "Eb") ELSE f

\* Lines 393-396, then move_model_from_usb, lines 505-506 and 516.
SrCleanup ==
    /\ pc = "sr_cleanup"
    /\ fs' = CleanupBackup(fs)
    /\ model' = [model EXCEPT !.is_symlink = FALSE, !.linked_to = <<>>]
    /\ Return("restore", "ok", "")
    /\ UNCHANGED <<env, usb_verification, symlink_strategy, size_threshold, sm, mon, fq, pre, hist>>
    /\ UNCHANGED budget

\* Lines 402-404: what is at the local destination is moved to the source.
SrRb1 ==
    /\ pc = "sr_rb1"
    /\ IF Exists(fs, "E") /\ Exists(fs, "P")
       THEN \E o \in ShutilMove(fs, "E", sm.source) :
               /\ Allowed(o)
               /\ budget' = Spend(o)
               /\ fs' = o.fs
               /\ IF o.ok THEN Goto("sr_rb2") /\ hist' = RecoveryStep(hist)
                  ELSE /\ Return("restore", "fail", sm.err)
                       /\ hist' = RecoveryFailed(hist)
       ELSE /\ fs' = fs /\ budget' = budget
            /\ Goto("sr_rb2") /\ hist' = RecoveryStep(hist)
    /\ UNCHANGED <<model, env, usb_verification, symlink_strategy, size_threshold, sm, mon, fq, pre>>

\* Lines 407-415: the link is restored from its backup; the original
\* exception is raised.  unlink() of a directory raises.
SrRb2 ==
    /\ pc = "sr_rb2"
    /\ IF sm.backup_path /\ Exists(fs, "Eb")
       THEN IF Exists(fs, "E") /\ fs["E"].kind = "dir"
            THEN fs' = fs /\ budget' = budget /\ hist' = RecoveryFailed(hist)
            ELSE \E o \in ShutilMove(IF Exists(fs, "E") THEN Remove(fs, "E") ELSE fs,
                                     "Eb", "E") :
                    /\ Allowed(o)
                    /\ budget' = Spend(o)
                    /\ fs' = o.fs
                    /\ hist' = IF o.ok THEN hist ELSE RecoveryFailed(hist)
       ELSE UNCHANGED <<fs, hist, budget>>
    /\ Return("restore", "fail", sm.err)
    /\ UNCHANGED <<model, env, usb_verification, symlink_strategy, size_threshold, sm, mon, fq, pre>>

----------------------------------------------------------------------------
(* safe_restore_internal_symlinks(model_directory = E, usb_source_directory) *)

\* A file directly in the directory on the removable root (not in a subdirectory).
TopLevel(n) == n \in {"w.gguf", "c.json"}

\* Lines 421-432: the links of the entry whose target's parent is the source
\* directory itself.
SymlinkFiles(f, usb) ==
    IF f["E"].kind # "dir" THEN <<>>
    ELSE SelectSeq(NameOrder, LAMBDA n :
            /\ n \in DOMAIN f["E"].files
            /\ f["E"].files[n].kind = "link"
            /\ Resolve(f, f["E"].files[n]).kind = "file"
            /\ f["E"].files[n].to[1] = usb[1]
            /\ TopLevel(f["E"].files[n].to[2]))

\* Line 492: raise RuntimeError(f"Failed to restore internal symlinks: {e}").
RiScan ==
    /\ pc = "ri_scan"
    /\ LET found == SymlinkFiles(fs, model.internal_symlink_target)
       IN IF found = <<>>
          THEN /\ Return("restore", "fail", "NoInternalSymlinks")
               /\ UNCHANGED <<fq, hist>>
          ELSE /\ Goto("ri_file")
               /\ fq' = [NoFiles EXCEPT !.files = found, !.i = 1]
               /\ hist' = hist
    /\ UNCHANGED <<fs, model, env, usb_verification, symlink_strategy, size_threshold, sm, mon, pre>>
    /\ UNCHANGED budget

RiRaise(kind) ==
    /\ pc' = "ri_rb"
    /\ err' = kind
    /\ hist' = Triggered(hist, kind)
    /\ UNCHANGED <<op, result>>

\* A variant of lines 439-455 whose copy holds one unit whatever the target holds.
RestoreOneFileShort(f, n) ==
    LET l == f["E"].files[n]
        aside == DelLeaf(SetLeaf(f, "E", BackupName(n), l), "E", n)
    IN {[fs |-> SetLeaf(aside, "E", n, File(1)), ok |-> TRUE, fault |-> FALSE,
         kept |-> TRUE]}

\* Lines 439-455, one link: copied aside, unlinked, replaced by a copy of
\* its target, the copy verified.
RestoreOneFile(f, n) ==
    LET l == f["E"].files[n]
        t == Resolve(f, l)
        aside == DelLeaf(SetLeaf(f, "E", BackupName(n), l), "E", n)
        out(g, ok, fault, kept) == [fs |-> g, ok |-> ok, fault |-> fault, kept |-> kept]
    IN IF HasLeaf(f, "E", BackupName(n)) THEN {out(f, FALSE, FALSE, FALSE)}
       ELSE {out(SetLeaf(aside, "E", n, t), t.size # 0, FALSE, TRUE),
             out(SetLeaf(aside, "E", n, File(0)), FALSE, TRUE, TRUE),
             out(aside, FALSE, TRUE, TRUE)}

RiFile ==
    /\ pc = "ri_file"
    /\ LET n == fq.files[fq.i] IN
       \E o \in RestoreOneFile(fs, n) :
          /\ Allowed(o)
          /\ budget' = Spend(o)
          /\ fs' = o.fs
          /\ fq' = [fq EXCEPT !.i = IF o.ok THEN @ + 1 ELSE @,
                              !.backups = IF o.kept THEN Append(@, n) ELSE @]
          /\ IF o.ok
             THEN /\ Goto(IF fq.i = Len(fq.files) THEN "ri_cleanup" ELSE "ri_file")
                  /\ hist' = hist
             ELSE RiRaise(IF Resolve(fs, fs["E"].files[n]).size = 0 /\ o.kept
                             /\ HasLeaf(o.fs, "E", n)
                          THEN "VerificationFailed" ELSE "IOError")
    /\ UNCHANGED <<model, env, usb_verification, symlink_strategy, size_threshold, sm, mon, pre>>

\* Lines 457-466: every link copied aside so far is put back.
RECURSIVE RestoreBackups(_, _)
RestoreBackups(f, q) ==
    IF q = <<>> THEN f
    ELSE LET n == Head(q)
             l == f["E"].files[BackupName(n)]
         IN RestoreBackups(SetLeaf(DelLeaf(f, "E", BackupName(n)), "E", n, l), Tail(q))

RiRb ==
    /\ pc = "ri_rb"
    /\ fs' = RestoreBackups(fs, fq.backups)
    /\ hist' = [hist EXCEPT !.rollback_attempted = TRUE]
    /\ Return("restore", "fail", err)
    /\ UNCHANGED <<model, env, usb_verification, symlink_strategy, size_threshold, sm, mon, fq, pre>>
    /\ UNCHANGED budget

\* Lines 469-471: the copies of the links are unlinked (while they resolve).
RECURSIVE CleanupBackups(_, _)
CleanupBackups(f, q) ==
    IF q = <<>> THEN f
    ELSE CleanupBackups(IF LeafExists(f, "E", BackupName(Head(q)))
                        THEN DelLeaf(f, "E", BackupName(Head(q))) ELSE f, Tail(q))

RiCleanup ==
    /\ pc = "ri_cleanup"
    /\ fs' = CleanupBackups(fs, fq.backups)
    /\ Goto("ri_usb")
    /\ UNCHANGED <<model, env, usb_verification, symlink_strategy, size_threshold, sm, mon, fq,
                   pre, hist>>
    /\ UNCHANGED budget

\* Lines 474-489: the files are removed from the removable root, and the
\* directory if it is empty; failures here are ignored.  Then
\* move_model_from_usb, lines 513-516.
Range(q) == {q[j] : j \in 1..Len(q)}

RiUsb ==
    /\ pc = "ri_usb"
    /\ \E failed \in SUBSET Range(fq.files), rmdir_ok \in BOOLEAN :
          LET d == fs["D"]
              left == Restrict(d.files, DOMAIN d.files \ (Range(fq.files) \ failed))
              o == [fault |-> failed # {} \/ ~rmdir_ok]
          IN /\ Allowed(o)
             /\ budget' = Spend(o)
             /\ fs' = IF d.kind # "dir" THEN fs
                      ELSE IF DOMAIN left = {} /\ rmdir_ok THEN Remove(fs, "D")
                      ELSE Put(fs, "D", Dir(left))
    /\ model' = [model EXCEPT !.has_internal_symlinks = FALSE,
                              !.internal_symlink_target = <<>>]
    /\ Return("restore", "ok", "")
    /\ UNCHANGED <<env, usb_verification, symlink_strategy, size_threshold, sm, mon, fq, pre, hist>>

----------------------------------------------------------------------------
(* The program *)

Next ==
    \/ StartRelocate \/ MvLookup \/ MvSpace \/ MvStrategy
    \/ DlSymlink \/ MvExcept \/ MvRaise
    \/ StartSafeMove \/ SmProbe \/ SmBackup \/ SmSize \/ SmMove
    \/ MmStart \/ MmMove \/ MmCheck1 \/ MmRmtree \/ MmCheck2
    \/ SmVerify \/ SmCleanup \/ SmRb1 \/ SmRb2 \/ SmRb3
    \/ MonitorExit \/ MonitorLoop \/ MonitorProbe1 \/ MonitorProbe2
    \/ FlMkdir \/ FlMove \/ FlVerify \/ FlRb1 \/ FlRb2
    \/ StartRestore \/ RsSource
    \/ SrValidate \/ SrBackup \/ SrUnlink \/ SrMove \/ SrVerify \/ SrCleanup
    \/ SrRb1 \/ SrRb2
    \/ RiScan \/ RiFile \/ RiRb \/ RiCleanup \/ RiUsb

Spec == Init /\ [][Next]_vars

----------------------------------------------------------------------------
(* The selector, the partition and the health check called on their own *)

\* The entries handed to them: a single file, a directory of some of the
\* selector's file names, or a link to the destination, which is absent, a
\* file or a directory.
SelectorDirs ==
    {Dir(m) : m \in UNION {[S -> {File(s) : s \in 0..MaxFileSize}] :
                S \in {T \in SUBSET SelectorNames :
                          T # {} /\ Cardinality(T) <= MaxSelectorFiles}}}

SelectorFileSystems ==
    {[p \in Paths |-> IF p = "E" THEN e ELSE None] :
        e \in {File(s) : s \in 0..MaxFileSize} \cup SelectorDirs}
    \cup {[p \in Paths |-> IF p = "E" THEN Link(<<"D">>) ELSE IF p = "D" THEN d ELSE None] :
            d \in {None} \cup {File(s) : s \in 0..MaxFileSize}
                          \cup {Dir([x \in {"w.gguf"} |-> File(s)]) : s \in 0..MaxFileSize}}

SelectorInit ==
    /\ fs \in SelectorFileSystems
    /\ \E nm \in ModelNames :
          model = [ScanLocal(fs) EXCEPT !.name = nm, !.is_symlink = IsSymlink(fs, "E"),
                                        !.linked_to = fs["E"].to]
    /\ symlink_strategy \in {"auto", "directory", "file"}
    /\ size_threshold \in {0, FileSizeThreshold}
    /\ pc = "idle"
    /\ op = "none"
    /\ env = NoEnv
    /\ usb_verification = NoVerification
    /\ sm = NoFrame
    /\ mon = MonitorOff
    /\ fq = NoFiles
    /\ err = ""
    /\ result = NoResult
    /\ pre = fs
    /\ hist = NoHist
    /\ budget = [ops |-> 0, faults |-> 0]

\* _determine_symlink_strategy(model_info); the strategy returned is kept in
\* result.status.
Select ==
    /\ pc = "idle"
    /\ result = NoResult
    /\ result' = [op |-> "select", error |-> "",
                  status |-> determine_symlink_strategy(symlink_strategy, model, fs)]
    /\ UNCHANGED <<fs, pc, op, model, env, usb_verification, symlink_strategy,
                   size_threshold, sm, mon, fq, err, pre, hist, budget>>

\* _move_with_file_symlinks, lines 298-317, on a directory: files_to_move and
\* files_to_keep.
Partition ==
    /\ pc = "idle"
    /\ result = NoResult
    /\ fs["E"].kind = "dir"
    /\ result' = [op |-> "partition", error |-> "", status |-> "ok"]
    /\ fq' = [NoFiles EXCEPT !.files = FilesToMove(fs),
                             !.keep_local_files = FilesToKeep(fs)]
    /\ UNCHANGED <<fs, pc, op, model, env, usb_verification, symlink_strategy,
                   size_threshold, sm, mon, err, pre, hist, budget>>

\* check_symlink_health(model.path); the record returned is kept in
\* result.status.
CheckHealth ==
    /\ pc = "idle"
    /\ result = NoResult
    /\ result' = [op |-> "check", error |-> "",
                  status |-> check_symlink_health(fs, "E")]
    /\ UNCHANGED <<fs, pc, op, model, env, usb_verification, symlink_strategy,
                   size_threshold, sm, mon, fq, err, pre, hist, budget>>

SelectorNext == Select \/ Partition \/ CheckHealth

SelectorSpec == SelectorInit /\ [][SelectorNext]_vars

----------------------------------------------------------------------------
(* The catalog: scan, health check, repair and removal of an entry *)

\* No entry at the path: _scan_models lists nothing, remove_model has deleted
\* the record.
NoModel ==
    [name |-> "", is_symlink |-> FALSE, linked_to |-> <<>>,
     has_internal_symlinks |-> FALSE, internal_symlink_target |-> <<>>,
     size_bytes |-> 0, type |-> "none"]

\* _has_symlinked_contents, lines 219-229: the files of the entry that are
\* links to a file below the removable root.
UsbLinkedFiles(f) ==
    {n \in DOMAIN f["E"].files :
        /\ f["E"].files[n].kind = "link"
        /\ Resolve(f, f["E"].files[n]).kind = "file"
        /\ OnUsb(f["E"].files[n].to[1])}

\* Line 226: target.parent, the directory that holds the target of a link.
TargetParent(t) == IF TopLevel(t[2]) THEN <<t[1]>> ELSE <<t[1], "sub">>

\* The target t lies in the directory d or below it.
Under(t, d) == d = <<t[1]>> \/ d = TargetParent(t)

\* A variant of _has_symlinked_contents for which half of the files suffices.
has_symlinked_half(f, available) ==
    IF ~IsDir(f, "E") \/ ~available THEN {[has |-> FALSE, target |-> <<>>]}
    ELSE LET symlink_files == UsbLinkedFiles(f)
         IN IF CountAt(f, "E") = 0 \/ symlink_files = {}
            THEN {[has |-> FALSE, target |-> <<>>]}
            ELSE {[has |-> 2 * Cardinality(symlink_files) >= CountAt(f, "E"),
                   target |-> TargetParent(f["E"].files[n].to)] : n \in symlink_files}

\* _has_symlinked_contents: the results it can return.  The ratio of line 232
\* counts every link into the removable root; the directory reported is the
\* most frequent parent of their targets (lines 237-242), the first one met
\* among equals: rglob lists the files of the directory itself, in the order
\* of the file system, before those of its subdirectories.
has_symlinked_contents(f, available) ==
    IF ~IsDir(f, "E") \/ ~available THEN {[has |-> FALSE, target |-> <<>>]}
    ELSE LET file_count == CountAt(f, "E")
             symlink_files == UsbLinkedFiles(f)
             parent(n) == TargetParent(f["E"].files[n].to)
             usb_targets == {parent(n) : n \in symlink_files}
             count(d) == Cardinality({n \in symlink_files : parent(n) = d})
             most == {d \in usb_targets : \A c \in usb_targets : count(d) >= count(c)}
             met_first == {d \in most : \E n \in symlink_files : TopLevel(n) /\ parent(n) = d}
         IN IF file_count = 0 \/ symlink_files = {}
            THEN {[has |-> FALSE, target |-> <<>>]}
            ELSE {[has |-> 2 * Cardinality(symlink_files) > file_count, target |-> d] :
                     d \in (IF met_first # {} THEN met_first ELSE most)}

\* _process_model_directory, lines 141-176: the records a scan can make of
\* the entry.  A directory of size 0 is skipped.
Scan(f, available) ==
    IF f["E"].kind = "none" \/ (IsDir(f, "E") /\ calculate_size(f, "E") = 0)
    THEN {NoModel}
    ELSE {[name |-> PlainName, is_symlink |-> IsSymlink(f, "E"),
           linked_to |-> f["E"].to,
           has_internal_symlinks |-> r.has, internal_symlink_target |-> r.target,
           size_bytes |-> calculate_size(f, "E"), type |-> ModelType(f, "E")] :
             r \in (IF ~IsSymlink(f, "E") /\ IsDir(f, "E")
                    THEN has_symlinked_contents(f, available)
                    ELSE {[has |-> FALSE, target |-> <<>>]})}

\* The entries the catalog is built from: a single file, a directory whose
\* files are regular files or links into the removable root, a link to the
\* destination.
LinkedFile(n) == {File(s) : s \in SmallSizes} \cup {Link(<<"D", n>>), Link(<<"P", n>>)}

CatalogDirs ==
    {Dir(m) : m \in UNION {[S -> UNION {LinkedFile(n) : n \in S}] :
                             S \in (SUBSET EntryNames) \ {{}}}}

\* The removable root holds, at the destination and in the publisher
\* directory, every file a link names.
UsbCopy == Dir([n \in EntryNames |-> File(1)])

CatalogFileSystems ==
    {[p \in Paths |-> IF p = "E" THEN e ELSE None] : e \in {File(s) : s \in SmallSizes}}
    \cup {[p \in Paths |-> IF p = "E" THEN d
                          ELSE IF p \in {"D", "P"} THEN UsbCopy ELSE None] :
            d \in {c \in CatalogDirs :
                     \A n \in DOMAIN c.files : c.files[n].kind = "link" => c.files[n].to[2] = n}}
    \cup {[p \in Paths |-> IF p = "E" THEN Link(<<"D">>)
                          ELSE IF p = "D" THEN d ELSE None] :
            d \in {None, File(1), EmptyDir, Dir([x \in {"w.gguf"} |-> File(1)])}}
    \cup {[p \in Paths |-> IF p = "E" THEN Link(<<".", "D">>)
                          ELSE IF p = "D" THEN d ELSE None] :
            d \in {File(1), Dir([x \in {"w.gguf"} |-> File(1)])}}

Available == USBVerificationResult(TRUE, TRUE, TRUE, "mount_point")

\* ModelManager.__init__: _check_paths, then _scan_models.
CatalogInit ==
    /\ fs \in CatalogFileSystems
    /\ usb_verification \in {Available, NoVerification}
    /\ model \in Scan(fs, usb_available(usb_verification))
    /\ symlink_strategy = "auto"
    /\ size_threshold = FileSizeThreshold
    /\ pc = "idle"
    /\ op = "none"
    /\ env = NoEnv
    /\ sm = NoFrame
    /\ mon = MonitorOff
    /\ fq = NoFiles
    /\ err = ""
    /\ result = NoResult
    /\ pre = fs
    /\ hist = NoHist
    /\ budget = [ops |-> 0, faults |-> 0]

\* ModelManager.check_health, lines 745-768: the list the entry is put on.
check_health(f, m) ==
    IF ~m.is_symlink THEN "none"
    ELSE LET health == check_symlink_health(f, "E")
         IN IF health.is_broken THEN "broken_symlinks"
            ELSE IF health.target_exists /\ IsDir(f, "E") /\ CountAt(f, "E") = 0
            THEN "empty_directories"
            ELSE "none"

\* ModelManager.repair_broken_symlinks, lines 770-796, for the entry: what
\* it does to the path and to the record.
repair_broken_symlinks(f, m) ==
    LET health == check_symlink_health(f, "E")
    IN IF m.is_symlink /\ (health.is_broken \/ ~health.target_exists)
       THEN IF f["E"].kind = "none"
            THEN [fs |-> f, model |-> m, status |-> "Failed to remove"]
            ELSE [fs |-> Remove(f, "E"),
                  model |-> [m EXCEPT !.is_symlink = FALSE, !.linked_to = <<>>],
                  status |-> "Removed"]
       ELSE [fs |-> f, model |-> m, status |-> "none"]

\* A variant of check_health that removes the link it finds without target.
CheckCatalogRepairing ==
    /\ pc = "idle"
    /\ budget.ops < MaxOps
    /\ budget' = Called
    /\ result' = [op |-> "health", error |-> "", status |-> check_health(fs, model)]
    /\ fs' = repair_broken_symlinks(fs, model).fs
    /\ pre' = fs
    /\ UNCHANGED <<pc, op, model, env, usb_verification, symlink_strategy, size_threshold,
                   sm, mon, fq, err, hist>>

\* A call of check_health; the calls are counted.
CheckCatalog ==
    /\ pc = "idle"
    /\ budget.ops < MaxOps
    /\ budget' = Called
    /\ result' = [op |-> "health", error |-> "", status |-> check_health(fs, model)]
    /\ pre' = fs
    /\ UNCHANGED <<fs, pc, op, model, env, usb_verification, symlink_strategy,
                   size_threshold, sm, mon, fq, err, hist>>

\* A call of repair_broken_symlinks.
Repair ==
    /\ pc = "idle"
    /\ result.op # "repair"
    /\ LET r == repair_broken_symlinks(fs, model)
       IN /\ fs' = r.fs
          /\ model' = r.model
          /\ result' = [op |-> "repair", error |-> "", status |-> r.status]
    /\ pre' = fs
    /\ UNCHANGED <<pc, op, env, usb_verification, symlink_strategy, size_threshold,
                   sm, mon, fq, err, hist, budget>>

\* ModelManager.refresh, lines 798-802: the catalog is cleared and scanned
\* again, after a new verification of the removable root.
Refresh ==
    /\ pc = "idle"
    /\ result.op # "refresh"
    /\ \E v \in {Available, NoVerification} :
          /\ usb_verification' = v
          /\ model' \in Scan(fs, usb_available(v))
    /\ result' = [op |-> "refresh", error |-> "", status |-> "ok"]
    /\ pre' = fs
    /\ UNCHANGED <<fs, pc, op, env, symlink_strategy, size_threshold, sm, mon, fq, err,
                   hist, budget>>

\* Path.exists() of a recorded target: a path of the model, or the
\* subdirectory of one.
TargetExists(f, t) ==
    IF t = <<>> \/ IsRelative(t) THEN FALSE
    ELSE IF Len(t) = 1 THEN Exists(f, t[1])
    ELSE IsDir(f, t[1]) /\ \E n \in DOMAIN f[t[1]].files : ~TopLevel(n)

\* rmtree or unlink of a recorded target.
Erase(f, t) ==
    IF Len(t) = 1 THEN Remove(f, t[1])
    ELSE [f EXCEPT ![t[1]] =
             Dir(Restrict(@.files, {n \in DOMAIN @.files : TopLevel(n)}))]

\* ModelManager.remove_model, lines 521-585: the target on the removable
\* root if it exists, then the local path, then the record.
RemoveModel ==
    /\ pc = "idle"
    /\ model # NoModel
    /\ fs' = IF model.is_symlink
             THEN LET g == IF TargetExists(fs, model.linked_to)
                           THEN Erase(fs, model.linked_to) ELSE fs
                  IN IF IsSymlink(g, "E") THEN Remove(g, "E") ELSE g
             ELSE IF model.has_internal_symlinks
             THEN LET g == IF TargetExists(fs, model.internal_symlink_target)
                           THEN Erase(fs, model.internal_symlink_target) ELSE fs
                  IN IF Exists(g, "E") THEN Remove(g, "E") ELSE g
             ELSE IF Exists(fs, "E") THEN Remove(fs, "E") ELSE fs
    /\ model' = NoModel
    /\ result' = [op |-> "remove", error |-> "", status |-> "ok"]
    /\ pre' = fs
    /\ UNCHANGED <<pc, op, env, usb_verification, symlink_strategy, size_threshold,
                   sm, mon, fq, err, hist, budget>>

\* The environment: the removable root is unplugged, or the payload at the
\* destination is emptied, while the program holds its catalog.
ExternalChange ==
    /\ pc = "idle"
    /\ \E g \in {[p \in Paths |-> IF OnUsb(p) THEN None ELSE fs[p]],
                 [fs EXCEPT !["D"] = IF @.kind = "dir" THEN EmptyDir ELSE @]} :
          g # fs /\ fs' = g
    /\ UNCHANGED <<pc, op, model, env, usb_verification, symlink_strategy, size_threshold,
                   sm, mon, fq, err, result, pre, hist, budget>>

CatalogNext == CheckCatalog \/ Repair \/ Refresh \/ RemoveModel \/ ExternalChange

CatalogSpec == CatalogInit /\ [][CatalogNext]_vars

----------------------------------------------------------------------------
(* verify_usb_mounted called on its own, on hosts of either platform *)

\* What the host shows of the path handed to verify_usb_mounted: the
\* platform; whether the path starts with /Volumes/; os.path.ismount of the
\* path itself and of some proper ancestor below the root directory (below
\* /Volumes for a path under it); what the write test finds; and an error no
\* branch of the function expects: "stat" (Path.exists raises, the path lies
\* behind a directory that may not be searched) or "probe" (fsync or
\* disk_usage raises EIO on a root that takes writes).
Platforms == {"Darwin", "Linux"}
IoErrors == {"none", "stat", "probe"}

Hosts ==
    {h \in [platform : Platforms, under_volumes : BOOLEAN, ismount : BOOLEAN,
            ancestor_ismount : BOOLEAN, exists : BOOLEAN, writable : BOOLEAN,
            free : {0, 1, MaxFree}, write : {"ok", "oserror", "mismatch"},
            io_error : IoErrors, min_space_bytes : {0, MinSpaceDefault}] :
        /\ (~h.exists => ~h.ismount /\ ~h.writable /\ h.io_error # "probe")
        /\ (~h.writable => h.free = MaxFree)
        /\ (h.io_error = "probe" => h.writable /\ h.write = "ok")
        /\ h.write \in WriteOutcomes(h.writable, h.free)}

\* Lines 43-65: the mount-point test.  On Darwin os.path.ismount is asked of
\* a path under /Volumes/, and if that did not find a mount point the path
\* and its ancestors are asked, up to /Volumes or the root directory; on
\* every other platform os.path.ismount is asked of the path alone.
is_mount_point(h) ==
    LET first == IF h.platform = "Darwin"
                 THEN h.under_volumes /\ h.ismount
                 ELSE h.ismount
    IN IF ~first /\ h.platform = "Darwin"
       THEN h.ismount \/ h.ancestor_ismount
       ELSE first

\* What the rest of the function sees of the root.
HostEnv(h) ==
    [exists |-> h.exists, mounted |-> is_mount_point(h), writable |-> h.writable,
     free |-> h.free, write |-> IF h.io_error = "probe" THEN "oserror" ELSE h.write]

\* Lines 36-39, 101 and 108-115: the error message of a result; raised
\* tells that the unlink of line 91 raised into the handler of line 93.
error_message(e, v, raised) ==
    IF ~e.exists THEN "does_not_exist"
    ELSE IF e.write = "oserror" \/ raised THEN "cannot_write"
    ELSE IF ~v.is_mounted THEN "not_a_mount_point"
    ELSE IF ~v.is_writable THEN "not_writable"
    ELSE IF ~v.has_space THEN "insufficient_space"
    ELSE "ok"

\* Lines 125-130: the handler of every other exception.
UnknownVerification == USBVerificationResult(FALSE, FALSE, FALSE, "unknown")

\* One call of verify_usb_mounted(usb_path, min_space_bytes) on host h.
VerifyOnHost(f, h) ==
    IF h.io_error = "stat"
    THEN {[fs |-> f, fault |-> FALSE, check |-> UnknownVerification,
           error_message |-> "verification_failed"]}
    ELSE {[fs |-> o.fs, fault |-> o.fault, check |-> o.check,
           error_message |-> error_message(HostEnv(h), o.check, o.fault)] :
             o \in Probe(f, HostEnv(h), h.min_space_bytes)}

VerifyInit ==
    /\ fs = [p \in Paths |-> None]
    /\ env \in Hosts
    /\ usb_verification = NoVerification
    /\ model = NoModel
    /\ symlink_strategy = "auto"
    /\ size_threshold = FileSizeThreshold
    /\ pc = "idle"
    /\ op = "none"
    /\ sm = NoFrame
    /\ mon = MonitorOff
    /\ fq = NoFiles
    /\ err = ""
    /\ result = NoResult
    /\ pre = fs
    /\ hist = NoHist
    /\ budget = [ops |-> 0, faults |-> 0]

\* ModelManager.refresh_usb_status: the result is kept in _usb_verification.
VerifyUsb ==
    /\ pc = "idle"
    /\ budget.ops < MaxOps
    /\ \E o \in VerifyOnHost(fs, env) :
          /\ Allowed(o)
          /\ budget' = [Spend(o) EXCEPT !.ops = @ + 1]
          /\ fs' = o.fs
          /\ usb_verification' = o.check
          /\ result' = [op |-> "verify", status |-> o.error_message,
                        error |-> IF o.fault THEN "unlink" ELSE ""]
    /\ pre' = fs
    /\ op' = "verify"
    /\ UNCHANGED <<pc, model, env, symlink_strategy, size_threshold, sm, mon, fq, err, hist>>

\* Between two calls the medium is pulled, plugged in or remounted.
HostChange ==
    /\ pc = "idle"
    /\ result.op = "verify"
    /\ budget.ops < MaxOps
    /\ \E h \in Hosts :
          /\ h.platform = env.platform
          /\ h.under_volumes = env.under_volumes
          /\ h.min_space_bytes = env.min_space_bytes
          /\ h # env
          /\ env' = h
    /\ result' = NoResult
    /\ UNCHANGED <<fs, pc, op, model, usb_verification, symlink_strategy, size_threshold, sm,
                   mon, fq, err, pre, hist, budget>>

VerifyNext == VerifyUsb \/ HostChange

VerifySpec == VerifyInit /\ [][VerifyNext]_vars

----------------------------------------------------------------------------
(* verify_file_integrity called on its own *)

\* What verify_file_integrity can observe of a path: whether it exists, its
\* st_size, whether open() for reading succeeds, and its bytes.  The bytes
\* are told apart in the regions _verify_large_file reads (the first MiB, a
\* MiB in the middle, the last MiB) and in the rest; MD5 is taken to have no
\* collisions, so two digests are equal exactly when all the bytes are.
Regions == {"first", "middle", "last", "rest"}
Contents == [Regions -> {0, 1}]
NoContent == [r \in Regions |-> 0]

IntegrityFiles ==
    {[exists |-> FALSE, readable |-> FALSE, size |-> 0, content |-> NoContent]}
    \cup {x \in [exists : {TRUE}, readable : BOOLEAN, size : 0..MaxFileSize,
                 content : Contents] : x.size = 0 => x.content = NoContent}

\* Lines 180-189: the digest of what was read; the empty string, here the
\* empty sequence, if anything raised.
calculate_checksum(x) == IF x.readable THEN <<"md5", x.size, x.content>> ELSE <<>>

\* Lines 153-177: three samples are compared; an exception gives False.
verify_large_file(s, d) ==
    /\ s.readable /\ d.readable
    /\ \A r \in {"first", "middle", "last"} : s.content[r] = d.content[r]

\* Lines 133-150.
verify_file_integrity(s, d) ==
    IF ~s.exists \/ ~d.exists THEN FALSE
    ELSE IF s.size # d.size THEN FALSE
    ELSE IF s.size > GiB THEN verify_large_file(s, d)
    ELSE calculate_checksum(s) = calculate_checksum(d)

IntegrityInit ==
    /\ fs = [p \in Paths |-> None]
    /\ env \in [source : IntegrityFiles, destination : IntegrityFiles]
    /\ usb_verification = NoVerification
    /\ model = NoModel
    /\ symlink_strategy = "auto"
    /\ size_threshold = FileSizeThreshold
    /\ pc = "idle"
    /\ op = "none"
    /\ sm = NoFrame
    /\ mon = MonitorOff
    /\ fq = NoFiles
    /\ err = ""
    /\ result = NoResult
    /\ pre = fs
    /\ hist = NoHist
    /\ budget = [ops |-> 0, faults |-> 0]

Answer(b) == IF b THEN "True" ELSE "False"

\* verify_file_integrity(source, destination)
VerifyIntegrity ==
    /\ pc = "idle"
    /\ result.op = "none"
    /\ result' = [op |-> "integrity",
                  status |-> Answer(verify_file_integrity(env.source, env.destination)),
                  error |-> ""]
    /\ op' = "integrity"
    /\ budget' = Called
    /\ UNCHANGED <<fs, pc, model, env, usb_verification, symlink_strategy, size_threshold, sm,
                   mon, fq, err, pre, hist>>

\* verify_file_integrity(destination, source): the same two files, swapped.
VerifyIntegritySwapped ==
    /\ pc = "idle"
    /\ err = ""
    /\ err' = Answer(verify_file_integrity(env.destination, env.source))
    /\ budget' = Called
    /\ UNCHANGED <<fs, pc, op, model, env, usb_verification, symlink_strategy, size_threshold,
                   sm, mon, fq, result, pre, hist>>

IntegrityNext == VerifyIntegrity \/ VerifyIntegritySwapped

IntegritySpec == IntegrityInit /\ [][IntegrityNext]_vars

----------------------------------------------------------------------------
(* Two calls of move_model_to_usb on different entries, in two threads *)

\* The two threads of one process share the ModelManager, hence its field
\* _usb_verification, and the process id, hence the name of the probe file
\* <usb>/.llm_mover_test_<pid> (path T).  Each thread has its own entry and
\* its own destination on the removable root, which is healthy throughout:
\* mounted, writable, with room for both entries, and no call raises unless
\* the probe file is missing.
Threads == {1, 2}
EntryOf(t) == IF t = 1 THEN "E1" ELSE "E2"
DestinationOf(t) == IF t = 1 THEN "D1" ELSE "D2"
ThreadPaths == {"E1", "E2", "D1", "D2", "T"}

\* int(time.time()) at line 74: the second in which the probe is written.
Seconds == {1, 2}

ThreadEntries == {File(1), File(MaxFileSize), Dir([x \in {"w.gguf"} |-> File(1)])}

NoProbe == [test_data |-> 0, is_writable |-> FALSE, usb_status |-> NoVerification]

ThreadInit ==
    /\ \E e1 \in ThreadEntries, e2 \in ThreadEntries :
          fs = [p \in ThreadPaths |-> IF p = "E1" THEN e1 ELSE IF p = "E2" THEN e2 ELSE None]
    /\ op \in {"serial", "concurrent"}
    /\ pc = [t \in Threads |-> "idle"]
    /\ sm = [t \in Threads |-> NoProbe]
    /\ result = [t \in Threads |-> NoResult]
    /\ usb_verification = NoVerification
    /\ model = NoModel
    /\ symlink_strategy = "directory"
    /\ size_threshold = FileSizeThreshold
    /\ env = NoEnv
    /\ mon = MonitorOff
    /\ fq = NoFiles
    /\ err = ""
    /\ pre = fs
    /\ hist = NoHist
    /\ budget = [ops |-> 0, faults |-> 0]

\* The caller either serializes the two calls or does not.
MayStart(t) == op = "concurrent" \/ \A u \in Threads \ {t} : pc[u] \in {"idle", "done"}

ThreadUnchanged ==
    UNCHANGED <<op, model, env, symlink_strategy, size_threshold, mon, fq, err, pre, hist,
                budget>>

\* utils.py 68-78: the probe file is created, or truncated, and written.
ThWrite ==
    \E t \in Threads, now \in Seconds :
        /\ pc[t] = "idle"
        /\ MayStart(t)
        /\ fs' = Put(fs, "T", File(now))
        /\ sm' = [sm EXCEPT ![t].test_data = now]
        /\ pc' = [pc EXCEPT ![t] = "read"]
        /\ UNCHANGED <<result, usb_verification>>
        /\ ThreadUnchanged

\* The handler of lines 93-105: the root is reported as not writable.
CannotWrite == USBVerificationResult(TRUE, FALSE, FALSE, "mount_point")

\* Lines 81-84: the file is opened and read back; open raises if it is gone.
ThRead ==
    \E t \in Threads :
        /\ pc[t] = "read"
        /\ IF fs["T"].kind = "none"
           THEN /\ sm' = [sm EXCEPT ![t].usb_status = CannotWrite]
                /\ pc' = [pc EXCEPT ![t] = "store"]
           ELSE /\ sm' = [sm EXCEPT ![t].is_writable = (fs["T"].size = sm[t].test_data)]
                /\ pc' = [pc EXCEPT ![t] = "unlink"]
        /\ UNCHANGED <<fs, result, usb_verification>>
        /\ ThreadUnchanged

\* Lines 87-91 and 108-123: disk_usage, then test_file.unlink(), which raises
\* if the file is gone.
ThUnlink ==
    \E t \in Threads :
        /\ pc[t] = "unlink"
        /\ IF fs["T"].kind = "none"
           THEN /\ sm' = [sm EXCEPT ![t].usb_status = CannotWrite]
                /\ fs' = fs
           ELSE /\ sm' = [sm EXCEPT ![t].usb_status =
                             USBVerificationResult(TRUE, sm[t].is_writable, TRUE, "mount_point")]
                /\ fs' = Remove(fs, "T")
        /\ pc' = [pc EXCEPT ![t] = "store"]
        /\ UNCHANGED <<result, usb_verification>>
        /\ ThreadUnchanged

\* models.py 369: self._usb_verification = verify_usb_mounted(self.usb_path)
ThStore ==
    \E t \in Threads :
        /\ pc[t] = "store"
        /\ usb_verification' = sm[t].usb_status
        /\ pc' = [pc EXCEPT ![t] = "preflight"]
        /\ UNCHANGED <<fs, sm, result>>
        /\ ThreadUnchanged

\* models.py 387-393: the returned status decides whether the move starts.
ThPreflight ==
    \E t \in Threads :
        /\ pc[t] = "preflight"
        /\ IF usb_available(sm[t].usb_status)
           THEN pc' = [pc EXCEPT ![t] = "move"] /\ result' = result
           ELSE /\ pc' = [pc EXCEPT ![t] = "done"]
                /\ result' = [result EXCEPT ![t] = [op |-> "relocate", status |-> "RuntimeError",
                                                    error |-> "USB not writable"]]
        /\ UNCHANGED <<fs, sm, usb_verification>>
        /\ ThreadUnchanged

\* models.py 395-470 on a healthy root: the entry goes to its destination
\* and a link takes its place; only the thread's own two paths change.
ThMove ==
    \E t \in Threads :
        /\ pc[t] = "move"
        /\ fs' = [fs EXCEPT ![DestinationOf(t)] = fs[EntryOf(t)],
                            ![EntryOf(t)] = Link(<<DestinationOf(t)>>)]
        /\ pc' = [pc EXCEPT ![t] = "done"]
        /\ result' = [result EXCEPT ![t] = [op |-> "relocate", status |-> "Success",
                                            error |-> ""]]
        /\ UNCHANGED <<sm, usb_verification>>
        /\ ThreadUnchanged

ThreadNext == ThWrite \/ ThRead \/ ThUnlink \/ ThStore \/ ThPreflight \/ ThMove

ThreadSpec == ThreadInit /\ [][ThreadNext]_vars

----------------------------------------------------------------------------
(* safe_restore_from_usb called on its own, on any entry and source *)

\* What may be at the entry's path and at the source on the removable root
\* when the catalog is out of date: nothing, a file, a directory, and at the
\* entry's path also the link to the source.
RestoreSources ==
    {None, EmptyDir, Dir([x \in {"w.gguf"} |-> File(1)])}
        \cup {File(s) : s \in 0..MaxFileSize}
RestoreEntries == RestoreSources \cup {Link(<<"D">>)}

RestoreInit ==
    /\ \E e \in RestoreEntries, d \in RestoreSources, pub \in {None, EmptyDir} :
          /\ (d # None => pub = EmptyDir)
          /\ fs = [p \in Paths |-> IF p = "E" THEN e
                                   ELSE IF p = "D" THEN d
                                   ELSE IF p = "P" THEN pub ELSE None]
    /\ model = [ScanLocal(fs) EXCEPT !.is_symlink = TRUE, !.linked_to = <<"D">>]
    /\ symlink_strategy = "directory"
    /\ size_threshold = FileSizeThreshold
    /\ pc = "idle"
    /\ op = "none"
    /\ env = NoEnv
    /\ usb_verification = NoVerification
    /\ sm = NoFrame
    /\ mon = MonitorOff
    /\ fq = NoFiles
    /\ err = ""
    /\ result = NoResult
    /\ pre = fs
    /\ hist = NoHist
    /\ budget = [ops |-> 0, faults |-> 0]

\* safe_restore_from_usb(E, D, E), as move_model_from_usb calls it (models.py 502).
StartSafeRestore ==
    /\ pc = "idle"
    /\ budget.ops = 0
    /\ budget' = Called
    /\ sm' = [NoFrame EXCEPT !.source = "D", !.destination = "E", !.ret = "restore"]
    /\ pc' = "sr_validate"
    /\ op' = "restore"
    /\ result' = NoResult
    /\ pre' = fs
    /\ hist' = Started
    /\ UNCHANGED <<fs, model, env, usb_verification, symlink_strategy, size_threshold, mon, fq,
                   err>>

RestoreNext ==
    \/ StartSafeRestore
    \/ SrValidate \/ SrBackup \/ SrUnlink \/ SrMove \/ SrVerify \/ SrCleanup
    \/ SrRb1 \/ SrRb2

RestoreSpec == RestoreInit /\ [][RestoreNext]_vars

----------------------------------------------------------------------------
(* Properties *)

\* A call of o has returned.
Returned(o) == pc = "idle" /\ result.op = o
Succeeded(o) == Returned(o) /\ result.status = "ok"
Failed(o) == Returned(o) /\ result.status = "fail"

\* No path with the ".backup_<pid>" suffix: neither beside the entry, nor
\* beside the destination, nor among the files of the entry.
NoBackupLeft(f) ==
    /\ f["Eb"].kind = "none"
    /\ f["Db"].kind = "none"
    /\ f["E"].kind = "dir" =>
          DOMAIN f["E"].files \cap {BackupName(n) : n \in EntryNames} = {}

\* The entry's path is a link that resolves to the destination.
FullLink(f) == f["E"] = Link(<<"D">>) /\ f["D"].kind \in {"file", "dir"}

\* Some files of the entry g are links into the destination, which holds
\* them; the others are the regular files they were.
PerFileLinks(f, g) ==
    /\ f["E"].kind = "dir" /\ g["E"].kind = "dir"
    /\ DOMAIN f["E"].files = DOMAIN g["E"].files
    /\ \A n \in DOMAIN f["E"].files :
          \/ f["E"].files[n] = g["E"].files[n] /\ g["E"].files[n].kind = "file"
          \/ /\ f["E"].files[n] = Link(<<"D", n>>)
             /\ HasLeaf(f, "D", n)
             /\ f["D"].files[n] = g["E"].files[n]

\* C1: once a relocate or a restore call has returned, with success or with
\* a failure, no path carrying the backup suffix exists under either root.
C1_NoBackupAfterReturn ==
    (pc = "idle" /\ result.op # "none") => NoBackupLeft(fs)

\* C2: when the disconnect flag is found set at a checkpoint of a monitored
\* relocation, then once relocate has returned its failure the entry is at its
\* path with the file count and total size it had, and the destination path
\* does not exist.
C2_DisconnectRestoresSource ==
    (Failed("relocate") /\ hist.trigger = "Disconnect") =>
        /\ fs["E"].kind \in {"file", "dir"}
        /\ CountAt(fs, "E") = CountAt(pre, "E")
        /\ BytesAt(fs, "E") = BytesAt(pre, "E")
        /\ fs["D"].kind = "none"

\* C3: after a relocate that returns success, exactly one of a full link at
\* the entry's path and per-file links into the destination holds, and no
\* backup-suffixed path exists under either root.
C3_LinkShapeAndNoBackup ==
    Succeeded("relocate") =>
        /\ FullLink(fs) # PerFileLinks(fs, pre)
        /\ NoBackupLeft(fs)

\* C4: a successful relocate followed by a successful restore leaves an entry
\* at the original path whose size is the size reported before the relocate,
\* under the whole-directory and under the per-file strategy.
C4_RoundTripSize ==
    (Succeeded("restore") /\ hist.relocated >= 0) =>
        /\ fs["E"].kind \in {"file", "dir"}
        /\ calculate_size(fs, "E") = hist.relocated

\* A round trip of an entry whose links were per-file links has completed.
C4_Witness ==
    /\ Succeeded("restore")
    /\ hist.relocated > 0
    /\ fq.files # <<>>
    /\ calculate_size(fs, "E") = hist.relocated

\* C5, as stated: when the destination path exists at the call, relocate
\* fails with DestinationExists, the entry is untouched and the object at the
\* destination is neither overwritten nor deleted.
C5_AsStated ==
    (Returned("relocate") /\ Exists(pre, "D")) =>
        /\ result.status = "fail"
        /\ result.error = "DestinationExists"
        /\ fs["E"] = pre["E"]
        /\ fs["D"] = pre["D"]

\* C5: when the destination path exists at the call, relocate fails, with
\* DestinationExists once the pre-flight has passed for an entry that is not
\* yet relocated; the entry is untouched and the object at the destination is
\* neither overwritten nor deleted.
C5_DestinationExists ==
    (Returned("relocate") /\ Exists(pre, "D")) =>
        /\ result.status = "fail"
        /\ fs["E"] = pre["E"]
        /\ fs["D"] = pre["D"]
        /\ (usb_available(usb_verification) /\ ~model.is_symlink)
              => result.error = "DestinationExists"

\* A relocate onto a stale object has been refused.
C5_Witness ==
    /\ Failed("relocate")
    /\ result.error = "DestinationExists"
    /\ pre["D"] \in StaleObjects
    /\ fs["D"] = pre["D"]

\* C6: when the root reports 0 free bytes, the verification has has_space
\* false and relocate fails with InsufficientSpace, not with NotMounted or
\* NotWritable, and nothing has been moved or deleted.
C6_ZeroFreeIsInsufficientSpace ==
    (Returned("relocate") /\ env.exists /\ env.mounted /\ env.writable
        /\ env.free = 0 /\ env.write # "mismatch") =>
        /\ ~usb_verification.has_space
        /\ result.error = "InsufficientSpace"
        /\ fs["E"] = pre["E"] /\ fs["D"] = pre["D"]

\* C7: when the verification of the removable root before the transfer is
\* unhealthy, relocate returns with the files and directories of both roots
\* as they were at the call.
C7_UnhealthyTouchesNothing ==
    (Returned("relocate")
        /\ (~usb_available(usb_verification) \/ result.error = "PrecheckFailed")) =>
        fs = pre

\* C8: when a stale object at the destination was renamed aside and the
\* transfer or the verification then fails, the object is back at the
\* destination path when the call returns, and not under the backup name.
C8_StaleObjectBackAtDestination ==
    (Failed("safe_move") /\ hist.renamed_aside
        /\ hist.trigger \in {"IOError", "Disconnect", "VerificationFailed"}) =>
        /\ fs["D"] = pre["D"]
        /\ fs["Db"].kind = "none"

\* C9: when the verification after the transfer fails, the rollback leaves
\* the source content at its original path and no partial destination.
C9_VerificationFailureRollsBack ==
    ((Failed("relocate") \/ Failed("safe_move")) /\ hist.trigger = "VerificationFailed") =>
        /\ fs["E"] = pre["E"]
        /\ fs["D"] \in {None, pre["D"]}

\* C10: a failure after the pre-flight checks is followed by a rollback
\* attempt before the call returns, and the error returned is that failure,
\* whatever the rollback itself raised.
C10_RollbackThenOriginalError ==
    (pc = "idle" /\ result.op # "none" /\ hist.trigger # "") =>
        /\ hist.rollback_attempted
        /\ result.status = "fail"
        /\ result.error = hist.trigger

\* A call has returned its triggering failure after a rollback that raised.
C10_Witness ==
    /\ pc = "idle"
    /\ result.status = "fail"
    /\ hist.trigger # ""
    /\ hist.rollback_error
    /\ result.error = hist.trigger

\* C11: when the rollback of a failed relocate or restore itself fails, the
\* error returned is RollbackFailed, which a call whose rollback succeeded
\* never returns.
C11_RollbackFailureSurfaced ==
    (pc = "idle" /\ result.op # "none" /\ result.status = "fail"
        /\ hist.trigger # "") =>
        (hist.rollback_error <=> result.error = "RollbackFailed")

\* C12: when the restore of a whole-directory-linked entry fails after the
\* link was copied aside, at the move of the payload or at the verification,
\* then at the return the payload is at its place on the removable root as it
\* was, and the entry's path is again the link to it.
C12_FailedRestoreLeavesLinkAndPayload ==
    (Failed("restore") /\ sm.ret = "restore" /\ sm.backup_path
        /\ hist.trigger \in {"IOError", "VerificationFailed"}) =>
        /\ fs["D"] = pre["D"]
        /\ fs["E"] = Link(<<"D">>)

\* C13: in restore, the copy of the link exists from the removal of the link
\* until the verification has succeeded, and is deleted once the verification
\* has succeeded.
C13_BackupUntilVerified ==
    /\ (pc \in {"sr_move", "sr_verify", "sr_cleanup"} /\ sm.ret = "restore") =>
          fs["Eb"].kind = "link"
    /\ (Succeeded("restore") /\ sm.ret = "restore") => fs["Eb"].kind = "none"

\* C14: a configured strategy of "directory" or "file" is the strategy the
\* selector returns, for every entry, whatever its type, name and file names.
C14_OverrideWins ==
    (result.op = "select" /\ symlink_strategy \in {"directory", "file"}) =>
        result.status = symlink_strategy

\* The selector has returned the configured whole-directory strategy for an
\* entry that carries an MLX indicator.
C14_Witness ==
    /\ result.op = "select"
    /\ symlink_strategy = "directory"
    /\ mlx_indicators(model)
    /\ result.status = "directory"

\* The name of the entry, or the name of one of its regular files, carries a
\* mixed-precision token.
MixedPrecisionTokens ==
    \/ {"mx", "fp"} \subseteq NameTokens(model.name)
    \/ \E n \in RegularFiles(fs) : HasMxIndicator(n)

InSeq(n, q) == \E i \in 1..Len(q) : q[i] = n

C17_EmptyMoveSetFails ==
    /\ pc \in {"fl_mkdir", "fl_move", "fl_verify", "fl_rb1", "fl_rb2"} => fq.files # <<>>
    /\ (Returned("relocate") /\ hist.trigger = "NoEligibleFiles") =>
          /\ result.status = "fail"
          /\ result.error = "NoEligibleFiles"
          /\ fs["E"] = pre["E"]
          /\ fs["D"] = None
    /\ (Succeeded("relocate") /\ IsDir(pre, "E") /\ FilesToMove(pre) = <<>>) =>
          fs["E"] = Link(<<"D">>)

\* A per-file relocation of a directory has returned NoEligibleFiles.
C17_Witness ==
    /\ Failed("relocate")
    /\ result.error = "NoEligibleFiles"
    /\ pre["E"].kind = "dir"
    /\ FilesToMove(pre) = <<>>
    /\ fs["E"] = pre["E"]

\* The bytes of the entry stored locally: its regular files, links excluded.
LocalBytes(f) ==
    LET regular == {n \in DOMAIN f["E"].files : f["E"].files[n].kind = "file"}
    IN SumSet(regular, [n \in regular |-> f["E"].files[n].size])

\* The links of a per-file relocation are those of the files to move, each to
\* the file of the same relative path at the destination, and the files to
\* keep are the regular files they were.
PerFileOutcome ==
    LET toMove == Range(FilesToMove(pre))
        toKeep == Range(FilesToKeep(pre))
    IN /\ DOMAIN fs["E"].files = DOMAIN pre["E"].files
       /\ {n \in DOMAIN fs["E"].files : fs["E"].files[n].kind = "link"} = toMove
       /\ Cardinality(toMove) = Len(FilesToMove(pre))
       /\ \A n \in toMove :
             /\ fs["E"].files[n] = Link(<<"D", n>>)
             /\ HasLeaf(fs, "D", n)
             /\ fs["D"].files[n] = pre["E"].files[n]
       /\ \A n \in toKeep :
             fs["E"].files[n] = pre["E"].files[n] /\ fs["E"].files[n].kind = "file"

\* A relocation has succeeded file by file.
PerFileSucceeded == Succeeded("relocate") /\ fs["E"].kind = "dir"

PerFileFailed ==
    /\ Failed("relocate")
    /\ fq.files # <<>>
    /\ hist.trigger # ""

\* C19: when a per-file relocation fails at one of its files, each file
\* processed before it and each file not yet reached is, at the return, the
\* regular file it was at its original place.
C19_BatchRollback ==
    PerFileFailed =>
        \A j \in 1..Len(fq.files) :
            j # Len(fq.moved_files) + 1 =>
                /\ HasLeaf(fs, "E", fq.files[j])
                /\ fs["E"].files[fq.files[j]] = pre["E"].files[fq.files[j]]

\* C20: the health check reports as broken every link whose target does not
\* exist, and as not broken every link whose target exists.
C20_BrokenIffTargetMissing ==
    (result.op = "check" /\ fs["E"].kind = "link") =>
        (result.status.is_broken <=> Lookup(fs, fs["E"].to).kind = "none")

C22_RepairRemovesOnlyBroken ==
    [][(result.op # "repair" /\ result'.op = "repair") =>
          /\ model'.is_symlink => Exists(fs', "E")
          /\ (model.is_symlink /\ fs["E"].kind = "link" /\ ~Exists(fs, "E")) =>
                fs'["E"] = None
          /\ (model.is_symlink /\ fs["E"].kind = "link" /\ Exists(fs, "E")) =>
                fs' = fs]_vars

\* The files of the entry that are links to a file in the directory d of the
\* removable root or below it.
LinkedUnder(f, d) ==
    {n \in UsbLinkedFiles(f) : Under(f["E"].files[n].to, d)}

\* A scan of the catalog.
ScanStep == result.op # "refresh" /\ result'.op = "refresh"

C27_KindIsCurrent ==
    [][(result'.op \in {"repair", "remove"} /\ result'.op # result.op /\ model' # NoModel) =>
          model'.type = ModelType(fs', "E")]_vars

\* C29: the availability monitor never changes the file system: no step of
\* the monitor thread changes what is under the local or the removable
\* root; it only sets the cancellation flag.
MonitorStep == MonitorExit \/ MonitorLoop \/ MonitorProbe1 \/ MonitorProbe2
C29_MonitorLeavesFiles == [][MonitorStep => fs' = fs]_vars

\* The step of lines 273-285 that chooses how the source is moved.
TransferChoice == pc = "sm_size" /\ pc' # "sm_size"
MonitoredPath == pc' = "mm_start"

\* C30, as stated: _monitored_move is taken exactly when the source holds
\* 1 GiB or more, or a monitor root was given; shutil.move otherwise.
C30_AsStated ==
    [][TransferChoice =>
          (MonitoredPath <=> (BytesAt(fs, sm.source) >= GiB \/ sm.monitor))]_vars

\* C30, amended: _monitored_move is taken exactly when the source holds more
\* than 1 GiB, or a monitor root was given; a source of exactly 1 GiB with no
\* monitor root is moved by shutil.move.
C30_AboveThreshold ==
    [][TransferChoice =>
          /\ MonitoredPath <=> (BytesAt(fs, sm.source) > GiB \/ sm.monitor)
          /\ ~MonitoredPath <=> pc' = "sm_move"]_vars

C30_Witness ==
    pc = "sm_move" /\ ~sm.monitor /\ BytesAt(fs, sm.source) = GiB

\* The cases of a call of verify_usb_mounted, told from the host alone.
\* NoIoError: nothing raised but what the write test is there to find.
NoIoError == env.io_error = "none" /\ result.error = ""
MissingPath == NoIoError /\ ~env.exists
LocalDirectory == NoIoError /\ env.exists /\ ~env.ismount /\ ~env.ancestor_ismount
NonWritableRoot == NoIoError /\ env.ismount /\ env.write # "ok"
InsufficientSpace ==
    NoIoError /\ env.ismount /\ env.write = "ok" /\ env.free < env.min_space_bytes
HealthyRoot ==
    NoIoError /\ env.ismount /\ env.write = "ok" /\ env.free >= env.min_space_bytes

\* What is reported of the four expected cases and of a healthy root: the
\* five reports differ pairwise in the flags or the mount type, and the
\* message is the healthy one exactly when the three flags are true.
ExpectedOutcomes ==
    LET v == usb_verification IN
    /\ result.status = "ok" <=> (v.is_mounted /\ v.is_writable /\ v.has_space)
    /\ MissingPath =>
          v = USBVerificationResult(FALSE, FALSE, FALSE, "not_mounted")
          /\ result.status = "does_not_exist"
    /\ LocalDirectory =>
          ~v.is_mounted /\ v.mount_type = "directory"
          /\ result.status \in {"not_a_mount_point", "cannot_write"}
    /\ NonWritableRoot =>
          v.is_mounted /\ ~v.is_writable /\ v.mount_type = "mount_point"
          /\ result.status \in {"not_writable", "cannot_write"}
    /\ InsufficientSpace =>
          v = USBVerificationResult(TRUE, TRUE, FALSE, "mount_point")
          /\ result.status = "insufficient_space"
    /\ HealthyRoot =>
          v = USBVerificationResult(TRUE, TRUE, TRUE, "mount_point")
          /\ result.status = "ok"

C24_AncestorWalk ==
    (Returned("verify") /\ env.exists /\ env.io_error # "stat") =>
        /\ (env.ismount \/ env.ancestor_ismount) => usb_verification.is_mounted
        /\ (~env.ismount /\ ~env.ancestor_ismount) =>
              ~usb_verification.is_mounted /\ usb_verification.mount_type = "directory"

\* C25: below 1 GiB verify_file_integrity answers True exactly when both
\* files exist, have the same size and the same bytes; it answers False
\* whenever one of them cannot be read; and swapping its arguments does not
\* change the answer.
C25_IntegrityBelowThreshold ==
    (result.op = "integrity" /\ env.source.size < GiB /\ env.destination.size < GiB) =>
        /\ result.status = "True" <=>
              /\ env.source.exists /\ env.destination.exists
              /\ env.source.size = env.destination.size
              /\ env.source.content = env.destination.content
        /\ (~env.source.readable \/ ~env.destination.readable) => result.status = "False"
        /\ err # "" => err = result.status

\* C28: two relocations of different entries, run concurrently in any
\* interleaving, end as they end when run one after the other: on a healthy
\* removable root each returns success and leaves a link to its entry, which
\* is at its destination.
BothReturned == \A t \in Threads : pc[t] = "done"
C28_ConcurrentAsSerial ==
    BothReturned =>
        \A t \in Threads :
            /\ result[t].status = "Success"
            /\ fs[EntryOf(t)] = Link(<<DestinationOf(t)>>)
            /\ fs[DestinationOf(t)] = pre[EntryOf(t)]

\* C31: on the copy path (_monitored_move) the source is removed only after
\* the copy at the destination has passed the verification of lines 288-305:
\* no step taken before that verification removes the source.
BeforeVerification == pc \in {"mm_move", "mm_check1", "mm_rmtree", "mm_check2"}
C31_VerifyBeforeDelete ==
    [][(BeforeVerification /\ Exists(fs, sm.source)) => Exists(fs', sm.source)]_vars

\* C32: the disconnect flag is consulted before the source is deleted: with
\* the flag set, a directory source is not handed to rmtree at the checkpoint
\* of line 235, and a single-file source is not removed by the move either.
FlagSet == sm.monitor /\ mon.disconnected
C32_FlagCheckedBeforeDelete ==
    [][/\ (pc = "mm_check1" /\ FlagSet) => pc' # "mm_rmtree"
       /\ (pc = "mm_move" /\ FlagSet /\ IsFile(fs, sm.source)) => Exists(fs', sm.source)]_vars

\* C33: a disconnect flag that is set when a checkpoint of _monitored_move is
\* evaluated aborts the move: the checkpoint raises the disconnect error, the
\* recovery of safe_move_with_verification starts, and the relocation that
\* called it returns a failure carrying that error, never success.
Checkpoint == pc \in {"mm_check1", "mm_check2"} /\ pc' # pc
RelocateReturns == pc # "idle" /\ pc' = "idle" /\ result'.op = "relocate"
C33_DisconnectAborts ==
    [][/\ (Checkpoint /\ FlagSet) => (pc' = "sm_rb1" /\ sm'.err = "Disconnect")
       /\ (Checkpoint /\ ~FlagSet) => pc' \in {"mm_rmtree", "sm_verify"}
       /\ (RelocateReturns /\ hist.trigger = "Disconnect") =>
             /\ result'.status = "fail" /\ result'.error = "Disconnect"
             /\ hist.rollback_attempted]_vars

C33_Witness ==
    /\ Failed("relocate") /\ result.error = "Disconnect"
    /\ hist.trigger = "Disconnect" /\ hist.rollback_attempted

\* C34: the monitor lives only as long as one transfer: outside
\* _monitored_move the monitoring flag is clear, and with the flag clear the
\* monitor thread starts no probe of the removable root.
InMonitoredMove == pc \in {"mm_move", "mm_check1", "mm_rmtree", "mm_check2"}
StartsProbe == mon.pc # "probe" /\ mon'.pc = "probe"
C34_MonitorEndsWithTransfer ==
    [][/\ ~InMonitoredMove => ~mon.active
       /\ ~mon.active => ~StartsProbe]_vars

\* The files of the payload an operation started with, each with its size:
\* the entry of the state pre, links followed.  A single file is the one
\* file "" of its payload.
PayloadNode == Resolve(pre, pre["E"])
PayloadNames == IF PayloadNode.kind = "dir" THEN DOMAIN PayloadNode.files
                ELSE IF PayloadNode.kind = "file" THEN {""} ELSE {}
PayloadSize(n) == IF n = "" THEN PayloadNode.size
                  ELSE Resolve(pre, PayloadNode.files[n]).size
\* File n of the payload, whole, at path p of f (as what is there, or as a
\* file of the directory there), links followed.
WholeAt(f, p, n, s) ==
    LET x == Resolve(f, f[p])
    IN IF n = "" THEN x = File(s)
       ELSE x.kind = "dir" /\ n \in DOMAIN x.files /\ Resolve(f, x.files[n]) = File(s)

\* C35: no step of a relocate, a restore or their rollbacks destroys the
\* last complete copy: during and after the call every file of the payload is
\* whole at the entry's path or at its place on the removable root.
C35_CompleteCopyKept ==
    (op \in {"relocate", "restore"} \/ Returned("relocate") \/ Returned("restore")) =>
        \A n \in PayloadNames :
            WholeAt(fs, "E", n, PayloadSize(n)) \/ WholeAt(fs, "D", n, PayloadSize(n))

\* C36: when safe_restore_from_usb rejects its inputs it raises with the
\* file system as it found it; in particular what is at the local
\* destination is not moved to the removable root.
C36_RejectionChangesNothing ==
    (Failed("restore") /\ hist.trigger = "InvalidInput") => fs = pre

\* C37: a per-file relocation that failed and was rolled back leaves no
\* destination directory on the removable root, so the repeated relocate of
\* the entry passes the destination test of models.py 412-414.
PerFileRelocateFailed ==
    Failed("relocate") /\ fq # NoFiles /\ hist.rollback_attempted

C37_FailedRelocateLeavesNoDebris ==
    PerFileRelocateFailed => ~Exists(fs, "D")

\* C38: after a successful per-file restore no file of the entry, at any
\* depth, is still a link, every file that was a link is a regular local
\* file, and the entry is recorded as no longer on the removable root.
PerFileRestoreSucceeded == Succeeded("restore") /\ fq # NoFiles

LinkedBefore ==
    IF pre["E"].kind = "dir"
    THEN {n \in DOMAIN pre["E"].files : pre["E"].files[n].kind = "link"}
    ELSE {}

C38_NoLinkLeftAfterRestore ==
    PerFileRestoreSucceeded =>
        /\ fs["E"].kind = "dir"
        /\ \A n \in DOMAIN fs["E"].files : fs["E"].files[n].kind # "link"
        /\ \A n \in LinkedBefore :
              n \in DOMAIN fs["E"].files /\ fs["E"].files[n].kind = "file"
        /\ ~model.has_internal_symlinks

\* C39: in a per-file restore no file on the removable root is deleted
\* before every link of the entry has been replaced by a verified local
\* copy; when a file fails, the links replaced so far are links again and
\* the files on the removable root are all still there.
InPerFileRestore == pc \in {"ri_scan", "ri_file", "ri_rb", "ri_cleanup", "ri_usb"}

Replaced(f, n) ==
    /\ f["E"].kind = "dir"
    /\ n \in DOMAIN f["E"].files
    /\ f["E"].files[n].kind = "file"
    /\ f["E"].files[n].size # 0

PerFileRestoreFails ==
    /\ pc = "ri_rb"
    /\ pc' = "idle"
    /\ result'.op = "restore"
    /\ result'.status = "fail"

C39_RootKeptUntilAllReplaced ==
    [][/\ (InPerFileRestore /\ fs'["D"] # fs["D"]) =>
              \A n \in LinkedBefore : Replaced(fs, n)
       /\ PerFileRestoreFails =>
              /\ fs'["D"] = pre["D"]
              /\ \A n \in LinkedBefore :
                    /\ n \in DOMAIN fs'["E"].files
                    /\ fs'["E"].files[n] = pre["E"].files[n]]_vars

\* C40: the indirection the catalog records for an entry after a successful
\* relocate (full link and its target, or per-file links and their target)
\* is what a fresh scan of the file system computes, so the entry is still
\* listed as on the removable root after a refresh.
SameIndirection(r, m) ==
    /\ r # NoModel
    /\ r.is_symlink = m.is_symlink
    /\ r.linked_to = m.linked_to
    /\ r.has_internal_symlinks = m.has_internal_symlinks
    /\ r.internal_symlink_target = m.internal_symlink_target

C40_RecordEqualsFreshScan ==
    Succeeded("relocate") =>
        \A r \in Scan(fs, TRUE) :
            /\ SameIndirection(r, model)
            /\ r.is_symlink \/ r.has_internal_symlinks

====
